---- MODULE Spec2Model ----
(***************************************************************************)
(* Model of the upload-job orchestrator of server/routes.ts:               *)
(*   - MemStorage (the job store: create / update / list),                 *)
(*   - the POST /api/upload handler,                                       *)
(*   - processMediaAsync, one action per continuation between two awaits,  *)
(*   - the outcomes of the external calls it awaits (OpenAI vision call,   *)
(*     the python3 child process of processMedia, the file system),        *)
(* of the POST /api/optimize-convert handler of optimize-routes.ts and of  *)
(* the POST /api/resize-image handler of image-routes.ts.                   *)
(***************************************************************************)
EXTENDS Integers, Sequences, FiniteSets, TLC

VARIABLES
    uploadJobs,   \* MemStorage.uploadJobs: job id -> UploadJob record
    orch,         \* job id -> the locals of that job's processMediaAsync call
    writes,       \* history: job id -> sequence of the store writes for that job
    reply,        \* job id -> what POST /api/upload answered for that job
    resStatus,    \* status code of the last POST /api/upload response (0: none yet)
    disk,         \* job ids whose uploaded input file is still in uploads/
    now,          \* the wall clock read by new Date() and Date.now()
    opt,          \* the locals and the response of one POST /api/optimize-convert request
    rsz,          \* the locals and the response of one POST /api/resize-image request
    ret,          \* what the last call of a MemStorage method returned
    pm,           \* the locals and the settlement of one processMedia call
    vid,          \* the locals and the responses of one POST /api/resize-compress-video request
    enc,          \* the last call of SquooshOptimizer.getOptimalEncodingOptions and its result
    crop          \* the last crop resolution: source, target, hint and window

vars == <<uploadJobs, orch, writes, reply, resStatus, disk, now, opt, rsz, ret,
         pm, vid, enc, crop>>

\* The state of the calls and requests modelled one at a time
callVars == <<pm, vid, enc, crop>>

\* The state of the upload orchestrator
uploadVars == <<uploadJobs, orch, writes, reply, resStatus, disk, now>>

----------------------------------------------------------------------------
(* Bounds of the model *)

MaxJobs == 1

MaxStored == 2

MaxPair == 2

MaxClock == 1

----------------------------------------------------------------------------
(* shared/schema.ts: the format catalog *)

Fmt(n, w, h) == [name |-> n, width |-> w, height |-> h]

PLATFORM_CONFIGS ==
    << [id |-> "instagram", name |-> "Instagram",
        formats |-> << Fmt("Square", 1080, 1080), Fmt("Story", 1080, 1920),
                       Fmt("Reel", 1080, 1920) >>],
       [id |-> "tiktok", name |-> "TikTok",
        formats |-> << Fmt("Video", 1080, 1920) >>],
       [id |-> "youtube", name |-> "YouTube",
        formats |-> << Fmt("Video", 1920, 1080), Fmt("Thumbnail", 1280, 720) >>],
       [id |-> "facebook", name |-> "Facebook",
        formats |-> << Fmt("Feed", 1200, 1500), Fmt("Story", 1080, 1920),
                       Fmt("Video", 1920, 1080) >>],
       [id |-> "linkedin", name |-> "LinkedIn",
        formats |-> << Fmt("Post", 1200, 628), Fmt("Video", 1920, 1080) >>],
       [id |-> "pinterest", name |-> "Pinterest",
        formats |-> << Fmt("Pin", 1000, 1500), Fmt("Idea Pin", 1080, 1920) >>],
       [id |-> "twitter", name |-> "X/Twitter",
        formats |-> << Fmt("Post", 1920, 1080), Fmt("Header", 1500, 500) >>],
       [id |-> "website", name |-> "Website",
        formats |-> << Fmt("Banner", 2560, 1080), Fmt("Hero", 1920, 1080) >>] >>

\* PLATFORM_CONFIGS.find(p => p.id === platformId): the index found, 0 for undefined
FindPlatform(platformId) ==
    LET hits == {i \in DOMAIN PLATFORM_CONFIGS : PLATFORM_CONFIGS[i].id = platformId}
    IN  IF hits = {} THEN 0 ELSE CHOOSE i \in hits : \A k \in hits : i <= k

\* platform.formats.find(f => f.name === formatName): the index found, 0 for undefined
FindFormat(p, formatName) ==
    LET fs == PLATFORM_CONFIGS[p].formats
        hits == {i \in DOMAIN fs : fs[i].name = formatName}
    IN  IF hits = {} THEN 0 ELSE CHOOSE i \in hits : \A k \in hits : i <= k

\* platform.formats.map(f => f.name)
FormatNames(p) ==
    [i \in DOMAIN PLATFORM_CONFIGS[p].formats |-> PLATFORM_CONFIGS[p].formats[i].name]

----------------------------------------------------------------------------
(* The inputs of POST /api/upload *)

\* req.file, as multer hands it over (the fileFilter lets these mime types through)
Files ==
    { [originalname |-> "photo.jpg", size |-> 2048, mimetype |-> "image/jpeg"],
      [originalname |-> "clip.mp4",  size |-> 4096, mimetype |-> "video/mp4"] }

\* One entry of a selectedFormats object: platform id -> format names
Entry(p, names) == [platformId |-> p, formatNames |-> names, isNull |-> FALSE]

\* An entry whose value is the JSON null instead of an array of names (the body
\* is parsed with JSON.parse and not validated)
NullEntry(p) == [platformId |-> p, formatNames |-> << >>, isNull |-> TRUE]

\* req.body: the two optional form fields, already JSON-parsed. An object is the
\* sequence of its entries in insertion order (the order of Object.entries).
Body(hasSel, sel, hasPl, pl) ==
    [hasSelectedFormats |-> hasSel, selectedFormats |-> sel,
     hasPlatforms |-> hasPl, platforms |-> pl]

Bodies ==
    { Body(TRUE, << Entry("instagram", <<"Square">>) >>, FALSE, << >>),
      Body(TRUE, << Entry("instagram", <<"Square", "Story">>),
                    Entry("tiktok", <<"Video">>) >>, FALSE, << >>),
      Body(TRUE, << Entry("myspace", <<"Wall">>),
                    Entry("youtube", <<"Thumbnail">>) >>, FALSE, << >>),
      Body(TRUE, << Entry("instagram", <<"Banner", "Reel">>) >>, FALSE, << >>),
      Body(TRUE, << Entry("tiktok", << >>) >>, FALSE, << >>),
      Body(TRUE, << NullEntry("instagram") >>, FALSE, << >>),
      Body(TRUE, << >>, TRUE, <<"tiktok">>),
      Body(FALSE, << >>, TRUE, <<"tiktok", "myspace">>),
      Body(FALSE, << >>, TRUE, <<"myspace">>),
      Body(FALSE, << >>, FALSE, << >>) }

----------------------------------------------------------------------------
(* Values *)

\* A nullable field (results, error): null, or the value it holds
Null == << >>

Some(x) == << x >>

\* Math.round(num / den) for num >= 0, den > 0: the nearest integer, halves up
Round(num, den) == (2 * num + den) \div (2 * den)

\* mimeType.startsWith('image/')
IsImage(mimeType) == mimeType \in {"image/jpeg", "image/png", "image/webp"}

----------------------------------------------------------------------------
(* MemStorage *)

\* createUploadJob: the record stored under the fresh id
createUploadJob(insertJob, id, t) ==
    [id |-> id,
     status |-> IF insertJob.status = "" THEN "uploading" ELSE insertJob.status,
     progress |-> insertJob.progress,
     error |-> insertJob.error,
     results |-> insertJob.results,
     createdAt |-> t,
     updatedAt |-> t] @@ insertJob

\* Mutant of updateUploadJob: createdAt is stamped along with updatedAt
updateUploadJobRestamps(store, id, updates, t) ==
    IF id \notin DOMAIN store
    THEN store
    ELSE [store EXCEPT ![id] = [createdAt |-> t, updatedAt |-> t] @@ updates @@ store[id]]

\* Mutant of updateUploadJob: the updates are merged into every stored record
updateUploadJobClobbers(store, id, updates, t) ==
    IF id \notin DOMAIN store
    THEN store
    ELSE [k \in DOMAIN store |-> [updatedAt |-> t] @@ updates @@ store[k]]

\* Mutant of updateUploadJob: the record is replaced, fields not named fall
\* back to their defaults
updateUploadJobReplaces(store, id, updates, t) ==
    IF id \notin DOMAIN store
    THEN store
    ELSE [store EXCEPT ![id] = [updatedAt |-> t] @@ updates @@
                                  [store[id] EXCEPT !.progress = 0,
                                                    !.error = Null,
                                                    !.results = Null]]

\* updateUploadJob: { ...existingJob, ...updates, updatedAt: new Date() };
\* an unknown id leaves the map as it is (the call returns undefined)
updateUploadJob(store, id, updates, t) ==
    IF id \notin DOMAIN store
    THEN store
    ELSE [store EXCEPT ![id] = [updatedAt |-> t] @@ updates @@ store[id]]

\* What updateUploadJob returns: the merged record, undefined for an unknown id
updateUploadJobReturns(store, id, updates, t) ==
    IF id \notin DOMAIN store
    THEN Null
    ELSE Some(updateUploadJob(store, id, updates, t)[id])

\* getUploadJob: this.uploadJobs.get(id)
getUploadJob(store, id) ==
    IF id \notin DOMAIN store THEN Null ELSE Some(store[id])

\* Mutant of InsertByCreatedAt: the comparator is a - b (oldest first)
InsertOldestFirst(job, sorted) ==
    LET k == Cardinality({i \in DOMAIN sorted : sorted[i].createdAt <= job.createdAt})
    IN  SubSeq(sorted, 1, k) \o << job >> \o SubSeq(sorted, k + 1, Len(sorted))

\* One step of the stable sort with the comparator b.createdAt - a.createdAt:
\* `job` goes behind the jobs that are as new or newer
InsertByCreatedAt(job, sorted) ==
    LET k == Cardinality({i \in DOMAIN sorted : sorted[i].createdAt >= job.createdAt})
    IN  SubSeq(sorted, 1, k) \o << job >> \o SubSeq(sorted, k + 1, Len(sorted))

\* getAllUploadJobs: Array.from(this.uploadJobs.values()).sort(...), the values
\* in insertion order and the sort stable
RECURSIVE getAllUploadJobs(_)
getAllUploadJobs(store) ==
    IF store = << >> THEN << >>
    ELSE InsertByCreatedAt(store[Len(store)],
                           getAllUploadJobs(SubSeq(store, 1, Len(store) - 1)))

\* randomUUID(): an id no stored job has
FreshId(store) == Len(store) + 1

\* History of what the store held for job id after each write to it
Logged(w, store, id) ==
    [w EXCEPT ![id] = Append(@, [status |-> store[id].status,
                                 progress |-> store[id].progress])]

----------------------------------------------------------------------------
(* POST /api/upload *)

\* The object after platforms.forEach over `platforms`, begun with the entries `acc`
RECURSIVE LegacyInto(_, _)
LegacyInto(acc, platforms) ==
    IF platforms = << >> THEN acc
    ELSE LET id == Head(platforms)
             p == FindPlatform(id)
             has == \E i \in DOMAIN acc : acc[i].platformId = id
         IN  LegacyInto(IF p = 0 \/ has THEN acc
                        ELSE Append(acc, Entry(id, FormatNames(p))),
                        Tail(platforms))

\* Mutant of LegacyFormats: an id the catalog does not have gets an empty entry
LegacyFormatsKeepsUnknown(platforms) ==
    [i \in DOMAIN platforms |->
        IF FindPlatform(platforms[i]) = 0 THEN Entry(platforms[i], << >>)
        ELSE Entry(platforms[i], FormatNames(FindPlatform(platforms[i])))]

\* platforms.forEach: every listed id the catalog has gets all the format names
\* of its platform; an id listed twice is one key of the object
LegacyFormats(platforms) == LegacyInto(<< >>, platforms)

\* The selectedFormats object the handler builds from the request body
SelectedFormats(body) ==
    IF body.hasSelectedFormats THEN body.selectedFormats
    ELSE IF body.hasPlatforms THEN LegacyFormats(body.platforms)
    ELSE << >>

\* Object.keys(selectedFormats)
Keys(sel) == [i \in DOMAIN sel |-> sel[i].platformId]

\* The locals of a processMediaAsync call that has not run yet, with the handler's
\* `job` (the record createUploadJob returned) and, as history, the positions of
\* the pairs handed to processMedia so far (attempted)
NewCall(file, sel, job) ==
    [pc |-> "called",
     mimeType |-> file.mimetype,
     selectedFormats |-> sel,
     subjectAnalysis |-> FALSE,
     results |-> << >>,
     totalFormats |-> 0,
     processedFormats |-> 0,
     cursor |-> 1,
     timestamp |-> 0,
     attempted |-> {},
     job |-> job]

\* Mutant of SubmitWithin: the record is created before the selection is looked at
SubmitWithinCreatesFirst(file, body, max) ==
    LET sel == SelectedFormats(body)
        id == FreshId(uploadJobs)
        jobData == [originalFileName |-> file.originalname,
                    fileSize |-> file.size,
                    mimeType |-> file.mimetype,
                    platforms |-> Keys(sel),
                    status |-> "processing",
                    progress |-> 0,
                    results |-> Null,
                    error |-> Null]
    IN  /\ id <= max
        /\ uploadJobs' = Append(uploadJobs, createUploadJob(jobData, id, now))
        /\ orch' = Append(orch, NewCall(file, sel, uploadJobs'[id]))
        /\ writes' = Logged(Append(writes, << >>), uploadJobs', id)
        /\ reply' = Append(reply, Null)
        /\ disk' = disk \cup {id}
        /\ resStatus' = IF Len(Keys(sel)) = 0 THEN 400 ELSE resStatus
        /\ UNCHANGED <<now, opt, rsz, ret, callVars>>

\* The handler up to `await storage.createUploadJob(jobData)`: a request with no
\* selected platform is answered 400; otherwise the job record is created, as long as fewer than `max` jobs are stored.
SubmitWithin(file, body, max) ==
    LET sel == SelectedFormats(body)
        id == FreshId(uploadJobs)
        jobData == [originalFileName |-> file.originalname,
                    fileSize |-> file.size,
                    mimeType |-> file.mimetype,
                    platforms |-> Keys(sel),
                    status |-> "processing",
                    progress |-> 0,
                    results |-> Null,
                    error |-> Null]
    IN  IF Len(Keys(sel)) = 0
        THEN /\ resStatus' = 400
             /\ UNCHANGED <<uploadJobs, orch, writes, reply, disk, now, opt, rsz, ret, callVars>>
        ELSE /\ id <= max
             /\ uploadJobs' = Append(uploadJobs, createUploadJob(jobData, id, now))
             /\ orch' = Append(orch, NewCall(file, sel, uploadJobs'[id]))
             /\ writes' = Logged(Append(writes, << >>), uploadJobs', id)
             /\ reply' = Append(reply, Null)
             /\ disk' = disk \cup {id}
             /\ UNCHANGED <<resStatus, now, opt, rsz, ret, callVars>>

\* POST /api/upload
Submit(file, body) == SubmitWithin(file, body, MaxJobs)

----------------------------------------------------------------------------
(* processMediaAsync *)

\* The (platformId, formatName) pairs in the order the two nested loops visit them
RECURSIVE Tasks(_)
Tasks(sel) ==
    IF sel = << >> THEN << >>
    ELSE [i \in DOMAIN Head(sel).formatNames |->
             [platformId |-> Head(sel).platformId,
              formatName |-> Head(sel).formatNames[i]]] \o Tasks(Tail(sel))

\* Mutant of TotalFormats: the platforms are counted instead of their formats
RECURSIVE TotalFormatsCountsPlatforms(_)
TotalFormatsCountsPlatforms(sel) ==
    IF sel = << >> THEN 0
    ELSE 1 + TotalFormatsCountsPlatforms(Tail(sel))

\* Object.entries(selectedFormats).reduce((acc, [_, names]) => acc + names.length, 0)
RECURSIVE TotalFormats(_)
TotalFormats(sel) ==
    IF sel = << >> THEN 0
    ELSE Len(Head(sel).formatNames) + TotalFormats(Tail(sel))

\* formatNames.length throws a TypeError for an entry whose value is null
ReduceThrows(sel) == \E i \in DOMAIN sel : sel[i].isNull

\* Neither `if (!platform) continue` nor `if (!format) continue` skips this pair
Runnable(task) ==
    /\ FindPlatform(task.platformId) # 0
    /\ FindFormat(FindPlatform(task.platformId), task.formatName) # 0

\* Mutant of NextTask: an unknown platform or format ends the loops (break
\* instead of continue)
NextTaskStopsAtUnknown(tasks, from) ==
    IF from <= Len(tasks) /\ Runnable(tasks[from]) THEN from ELSE Len(tasks) + 1

\* The first pair at or after position `from` that the loops hand to processMedia;
\* Len(tasks) + 1 when the loops run out
NextTask(tasks, from) ==
    LET hits == {i \in from..Len(tasks) : Runnable(tasks[i])}
    IN  IF hits = {} THEN Len(tasks) + 1
        ELSE CHOOSE i \in hits : \A k \in hits : i <= k

\* Mutant of Progress: the Phase A base of 30 is left out
ProgressWithoutBase(processedFormats, totalFormats) ==
    Round(60 * processedFormats, totalFormats)

\* Mutant of Progress: the share of processed formats as a plain percentage
ProgressAsPercent(processedFormats, totalFormats) ==
    Round(100 * processedFormats, totalFormats)

\* 30 + Math.round((processedFormats / totalFormats) * 60)
Progress(processedFormats, totalFormats) ==
    30 + Round(60 * processedFormats, totalFormats)

\* The ProcessedResult pushed for a finished task
Result(task, timestamp) ==
    LET p == FindPlatform(task.platformId)
        f == PLATFORM_CONFIGS[p].formats[FindFormat(p, task.formatName)]
    IN  [platform |-> PLATFORM_CONFIGS[p].name,
         format |-> f.name,
         dimensions |-> [width |-> f.width, height |-> f.height],
         filePath |-> <<task.platformId, f.name, timestamp>>,
         optimized |-> TRUE]

\* One store update by job j, with the history kept
Update(j, updates) ==
    /\ uploadJobs' = updateUploadJob(uploadJobs, j, updates, now)
    /\ writes' = Logged(writes, uploadJobs', j)

\* Mutant of CompletedUpdate: the results are left out
CompletedUpdateWithoutResults(results) ==
    [status |-> "completed", progress |-> 100]

\* Mutant of CompletedUpdate: progress is not set to 100
CompletedUpdateKeepsProgress(results) ==
    [status |-> "completed", results |-> Some(results)]

\* The update that marks the job completed
CompletedUpdate(results) ==
    [status |-> "completed", progress |-> 100, results |-> Some(results)]

\* Mutant of FailedUpdate: the handler sets the status and forgets the message
FailedUpdateWithoutMessage(message) ==
    [status |-> "failed"]

\* The update of the outer catch handler
FailedUpdate(message) ==
    [status |-> "failed", error |-> Some(message)]

\* The nested for loops from position `from` on, up to their next await: either
\* processMedia is called for the next runnable pair, or the loops are over and
\* the completed update is written.
RunLoop(j, o, from) ==
    LET tasks == Tasks(o.selectedFormats)
        i == NextTask(tasks, from)
    IN  IF i <= Len(tasks)
        THEN /\ orch' = [orch EXCEPT ![j] =
                            [o EXCEPT !.pc = "task", !.cursor = i, !.timestamp = now,
                                      !.attempted = @ \cup {i}]]
             /\ UNCHANGED <<uploadJobs, writes>>
        ELSE /\ orch' = [orch EXCEPT ![j] =
                            [o EXCEPT !.pc = "completed", !.cursor = i]]
             /\ Update(j, CompletedUpdate(o.results))

\* Mutant of Start: the handler answers with the record re-read from the store
StartRepliesStoredJob(j) ==
    /\ orch[j].pc = "called"
    /\ Update(j, [status |-> "processing", progress |-> 10])
    /\ orch' = [orch EXCEPT ![j].pc = "started"]
    /\ reply' = [reply EXCEPT ![j] = Some(uploadJobs'[j])]
    /\ resStatus' = 200
    /\ UNCHANGED <<disk, now, opt, rsz, ret, callVars>>

\* processMediaAsync is called and runs to its first await (the progress-10
\* update); back in the handler, res.json(job) answers with the created record.
Start(j) ==
    /\ orch[j].pc = "called"
    /\ Update(j, [status |-> "processing", progress |-> 10])
    /\ orch' = [orch EXCEPT ![j].pc = "started"]
    /\ reply' = [reply EXCEPT ![j] = Some(orch[j].job)]
    /\ resStatus' = 200
    /\ UNCHANGED <<disk, now, opt, rsz, ret, callVars>>

\* Mutant of BeginAnalysis: the progress-30 update is inside the image branch
BeginAnalysisSkipsCheckpoint(j) ==
    /\ orch[j].pc = "started"
    /\ IF IsImage(orch[j].mimeType) /\ j \in disk
       THEN orch' = [orch EXCEPT ![j].pc = "analyzing"]
       ELSE orch' = [orch EXCEPT ![j].pc = "checkpoint"]
    /\ UNCHANGED <<uploadJobs, writes, reply, resStatus, disk, now, opt, rsz, ret, callVars>>

\* After the first update: an image is read and sent to the vision model (a
\* failing readFileSync is caught like a failing call); anything else goes
\* straight to the progress-30 update.
BeginAnalysis(j) ==
    /\ orch[j].pc = "started"
    /\ IF IsImage(orch[j].mimeType) /\ j \in disk
       THEN /\ orch' = [orch EXCEPT ![j].pc = "analyzing"]
            /\ UNCHANGED <<uploadJobs, writes>>
       ELSE /\ orch' = [orch EXCEPT ![j].pc = "checkpoint"]
            /\ Update(j, [progress |-> 30])
    /\ UNCHANGED <<reply, resStatus, disk, now, opt, rsz, ret, callVars>>

\* The vision call resolves with content that parses: subjectAnalysis is set
AnalysisResolves(j) ==
    /\ orch[j].pc = "analyzing"
    /\ orch' = [orch EXCEPT ![j].pc = "checkpoint", ![j].subjectAnalysis = TRUE]
    /\ Update(j, [progress |-> 30])
    /\ UNCHANGED <<reply, resStatus, disk, now, opt, rsz, ret, callVars>>

\* Mutant of AnalysisRejects: no inner catch, the rejection reaches the outer handler
AnalysisRejectsAborts(j) ==
    /\ orch[j].pc = "analyzing"
    /\ orch' = [orch EXCEPT ![j].pc = "aborted"]
    /\ Update(j, FailedUpdate("Request timed out."))
    /\ UNCHANGED <<reply, resStatus, disk, now, opt, rsz, ret, callVars>>

\* The vision call rejects, or its content does not parse: caught and logged
AnalysisRejects(j) ==
    /\ orch[j].pc = "analyzing"
    /\ orch' = [orch EXCEPT ![j].pc = "checkpoint"]
    /\ Update(j, [progress |-> 30])
    /\ UNCHANGED <<reply, resStatus, disk, now, opt, rsz, ret, callVars>>

\* Mutant of EnterLoop: a throwing reduce is swallowed and the loops run
EnterLoopSwallowsThrow(j) ==
    /\ orch[j].pc = "checkpoint"
    /\ RunLoop(j, [orch[j] EXCEPT !.results = << >>,
                                  !.totalFormats = TotalFormats(orch[j].selectedFormats),
                                  !.processedFormats = 0], 1)
    /\ UNCHANGED <<reply, resStatus, disk, now, opt, rsz, ret, callVars>>

\* After the progress-30 update: totalFormats is computed and the loops start;
\* when the reduce throws, the outer catch handler writes its update and the
\* function returns
EnterLoop(j) ==
    /\ orch[j].pc = "checkpoint"
    /\ IF ReduceThrows(orch[j].selectedFormats)
       THEN /\ orch' = [orch EXCEPT ![j].pc = "aborted"]
            /\ Update(j, FailedUpdate("Cannot read properties of null (reading 'length')"))
       ELSE RunLoop(j, [orch[j] EXCEPT !.results = << >>,
                                       !.totalFormats = TotalFormats(orch[j].selectedFormats),
                                       !.processedFormats = 0], 1)
    /\ UNCHANGED <<reply, resStatus, disk, now, opt, rsz, ret, callVars>>

\* Mutant of TaskResolves: the progress update also carries the results so far
TaskResolvesPublishes(j) ==
    LET o == orch[j]
        task == Tasks(o.selectedFormats)[o.cursor]
        n == o.processedFormats + 1
        results == Append(o.results, Result(task, o.timestamp))
    IN  /\ o.pc = "task"
        /\ j \in disk
        /\ orch' = [orch EXCEPT ![j] =
                       [o EXCEPT !.pc = "progressed",
                                 !.results = results,
                                 !.processedFormats = n]]
        /\ Update(j, [progress |-> Progress(n, o.totalFormats),
                      results |-> Some(results)])
        /\ UNCHANGED <<reply, resStatus, disk, now, opt, rsz, ret, callVars>>

\* processMedia resolves and statSync finds the output: the result is pushed,
\* processedFormats incremented and the progress written (the processor needs a
\* readable input for that)
TaskResolves(j) ==
    LET o == orch[j]
        task == Tasks(o.selectedFormats)[o.cursor]
        n == o.processedFormats + 1
    IN  /\ o.pc = "task"
        /\ j \in disk
        /\ orch' = [orch EXCEPT ![j] =
                       [o EXCEPT !.pc = "progressed",
                                 !.results = Append(@, Result(task, o.timestamp)),
                                 !.processedFormats = n]]
        /\ Update(j, [progress |-> Progress(n, o.totalFormats)])
        /\ UNCHANGED <<reply, resStatus, disk, now, opt, rsz, ret, callVars>>

\* Mutant of TaskRejects: the catch handler pushes a result for the failed task
TaskRejectsPushesResult(j) ==
    LET o == orch[j]
        task == Tasks(o.selectedFormats)[o.cursor]
    IN  /\ o.pc = "task"
        /\ RunLoop(j, [o EXCEPT !.results = Append(@, Result(task, o.timestamp))],
                   o.cursor + 1)
        /\ UNCHANGED <<reply, resStatus, disk, now, opt, rsz, ret, callVars>>

\* Mutant of TaskRejects: no inner catch, the rejection reaches the outer handler
TaskRejectsAborts(j) ==
    /\ orch[j].pc = "task"
    /\ orch' = [orch EXCEPT ![j].pc = "done"]
    /\ Update(j, FailedUpdate("Processing failed with code 1"))
    /\ UNCHANGED <<reply, resStatus, disk, now, opt, rsz, ret, callVars>>

\* Mutant of TaskRejects: the inner catch handler also removes the input file
TaskRejectsRemovesInput(j) ==
    /\ orch[j].pc = "task"
    /\ RunLoop(j, orch[j], orch[j].cursor + 1)
    /\ disk' = disk \ {j}
    /\ UNCHANGED <<reply, resStatus, now, opt, rsz, ret, callVars>>

\* processMedia rejects (or statSync throws): the inner catch logs it and the
\* loops go on
TaskRejects(j) ==
    /\ orch[j].pc = "task"
    /\ RunLoop(j, orch[j], orch[j].cursor + 1)
    /\ UNCHANGED <<reply, resStatus, disk, now, opt, rsz, ret, callVars>>

\* The python3 child never exits: no 'close' and no 'error' event ever arrives,
\* and nothing kills the child or times the promise out
ChildNeverExits(j) ==
    /\ orch[j].pc = "task"
    /\ orch' = [orch EXCEPT ![j].pc = "hung"]
    /\ UNCHANGED <<uploadJobs, writes, reply, resStatus, disk, now, opt, rsz, ret, callVars>>

\* After a task's progress update: the loops go on
AfterProgress(j) ==
    /\ orch[j].pc = "progressed"
    /\ RunLoop(j, orch[j], orch[j].cursor + 1)
    /\ UNCHANGED <<reply, resStatus, disk, now, opt, rsz, ret, callVars>>

\* After the completed update: fs.unlinkSync(filePath) removes the input file
UnlinkSucceeds(j) ==
    /\ orch[j].pc = "completed"
    /\ j \in disk
    /\ disk' = disk \ {j}
    /\ orch' = [orch EXCEPT ![j].pc = "done"]
    /\ UNCHANGED <<uploadJobs, writes, reply, resStatus, now, opt, rsz, ret, callVars>>

\* After the completed update: fs.unlinkSync(filePath) throws, and the outer
\* catch handler writes its update
UnlinkThrows(j) ==
    /\ orch[j].pc = "completed"
    /\ orch' = [orch EXCEPT ![j].pc = "done"]
    /\ Update(j, FailedUpdate("unlink failed"))
    /\ UNCHANGED <<reply, resStatus, disk, now, opt, rsz, ret, callVars>>

\* The uploaded file becomes unreadable before processMediaAsync first reads it
\* (removed from uploads/ from outside the program)
InputLost(j) ==
    /\ orch[j].pc = "started"
    /\ j \in disk
    /\ disk' = disk \ {j}
    /\ UNCHANGED <<uploadJobs, orch, writes, reply, resStatus, now, opt, rsz, ret, callVars>>

\* Time passes
Tick ==
    /\ now < MaxClock
    /\ now' = now + 1
    /\ UNCHANGED <<uploadJobs, orch, writes, reply, resStatus, disk, opt, rsz, ret, callVars>>

----------------------------------------------------------------------------
(* POST /api/optimize-convert *)

\* req.file.originalname extensions and the form fields of the request
Extensions == {".jpg", ".png", ".webp", ".gif"}

RequestedFormats == {"jpeg", "png", "webp", "original", "gif"}

\* The `reduction` field: missing or not a number (Null), or the integer it parses to
Reductions == {Null} \cup {Some(r) : r \in {-10, 0, 1, 49, 50, 51, 80, 94, 95, 96, 100}}

OptimizeBody(format, lossless, reduce, reduction) ==
    [format |-> format, losslessOptimize |-> lossless,
     reduceDimensions |-> reduce, reduction |-> reduction]

OptimizeBodies ==
    {OptimizeBody(f, l, d, r) : f \in RequestedFormats, l \in BOOLEAN,
                                d \in BOOLEAN, r \in Reductions}

Max(a, b) == IF a >= b THEN a ELSE b

Min(a, b) == IF a <= b THEN a ELSE b

\* The output format: the requested one if allowed, else the one of the file's
\* extension, JPEG for an unknown extension
OutputFormat(format, ext) ==
    LET outputFormat == IF format \in {"jpeg", "png", "webp", "original"}
                        THEN format ELSE "original"
    IN  IF outputFormat # "original" THEN outputFormat
        ELSE CASE ext \in {".jpg", ".jpeg"} -> "jpeg"
               [] ext = ".png" -> "png"
               [] ext = ".webp" -> "webp"
               [] OTHER -> "jpeg"

\* shouldReduceDimensions ? Math.max(50, Math.min(95, parseInt(reduction) || 80)) : 100
ReductionPercent(shouldReduceDimensions, reduction) ==
    IF ~shouldReduceDimensions THEN 100
    ELSE LET parsed == IF reduction = Null THEN 0 ELSE reduction[1]
         IN  Max(50, Min(95, IF parsed = 0 THEN 80 ELSE parsed))

\* The quality the Sharp pipeline encodes with (0: the PNG encoder takes none)
SharpQuality(outputFormat, isLossless) ==
    CASE outputFormat = "jpeg" -> IF isLossless THEN 85 ELSE 75
      [] outputFormat = "webp" -> IF isLossless THEN 90 ELSE 75
      [] OTHER -> 0

\* No request yet
OptIdle ==
    [pc |-> "idle",
     outputFormat |-> "",
     isLossless |-> FALSE,
     shouldReduceDimensions |-> FALSE,
     reduction |-> Null,
     reductionPercent |-> 100,
     professionalOptimizationUsed |-> FALSE,
     advancedRuns |-> 0,
     advancedFailure |-> Null,
     baselineRuns |-> 0,
     baselineFailed |-> FALSE,
     output |-> Null,
     input |-> FALSE,
     resStatus |-> 0,
     resBody |-> Null]

\* A request without a file is answered 400
OptimizeWithoutFile ==
    /\ opt.pc = "idle"
    /\ opt' = [opt EXCEPT !.pc = "responded", !.resStatus = 400,
                          !.resBody = Some([error |-> "No image file uploaded"])]
    /\ UNCHANGED <<uploadVars, rsz, ret, callVars>>

\* The handler up to `await new Promise(...)`: the settings are parsed and the
\* python3 optimizer is spawned
OptimizeRequest(ext, body) ==
    /\ opt.pc = "idle"
    /\ opt' = [opt EXCEPT !.pc = "advanced",
                          !.outputFormat = OutputFormat(body.format, ext),
                          !.isLossless = body.losslessOptimize,
                          !.shouldReduceDimensions = body.reduceDimensions,
                          !.reduction = body.reduction,
                          !.reductionPercent =
                              ReductionPercent(body.reduceDimensions, body.reduction),
                          !.advancedRuns = @ + 1,
                          !.input = TRUE]
    /\ UNCHANGED <<uploadVars, rsz, ret, callVars>>

\* The tail of the handler once the output is in place: statSync of the output
\* and of the input, unlinkSync of the input, res.json; a missing output makes
\* statSync throw, which the outer catch answers with 500
Respond(o) ==
    IF o.output = Null
    THEN [o EXCEPT !.pc = "responded", !.resStatus = 500,
                   !.resBody = Some([error |-> "Failed to process image"])]
    ELSE [o EXCEPT !.pc = "responded", !.resStatus = 200, !.input = FALSE,
                   !.resBody =
                       Some([success |-> TRUE,
                             format |-> o.outputFormat,
                             losslessOptimized |-> o.isLossless,
                             dimensionsReduced |-> o.shouldReduceDimensions,
                             reductionPercent |-> IF o.shouldReduceDimensions
                                                  THEN o.reductionPercent ELSE 100,
                             optimizationMethod |->
                                 IF o.professionalOptimizationUsed
                                 THEN "Professional AI-powered optimization"
                                 ELSE "Sharp-based optimization",
                             professionalOptimization |-> o.professionalOptimizationUsed])]

\* The child closes with code 0 and its output parses; it wrote the output file
\* or it did not (the handler does not look before statSync)
AdvancedSucceeds(wrote) ==
    /\ opt.pc = "advanced"
    /\ opt' = Respond([opt EXCEPT !.professionalOptimizationUsed = TRUE,
                                  !.output = IF wrote
                                             THEN Some([tier |-> "python",
                                                        format |-> opt.outputFormat,
                                                        quality |-> 0,
                                                        percent |-> opt.reductionPercent])
                                             ELSE Null])
    /\ UNCHANGED <<uploadVars, rsz, ret, callVars>>

\* Mutant of AdvancedFails: a first failure spawns the optimizer again
AdvancedFailsRetries(kind) ==
    /\ opt.pc = "advanced"
    /\ opt' = IF opt.advancedRuns = 1
              THEN [opt EXCEPT !.advancedRuns = 2]
              ELSE [opt EXCEPT !.advancedFailure = Some(kind),
                               !.baselineRuns = @ + 1,
                               !.pc = IF opt.shouldReduceDimensions
                                      THEN "metadata" ELSE "encoding"]
    /\ UNCHANGED <<uploadVars, rsz, ret, callVars>>

\* Mutant of AdvancedFails: no inner catch, the rejection reaches the outer handler
AdvancedFailsSurfaces(kind) ==
    /\ opt.pc = "advanced"
    /\ opt' = Respond([opt EXCEPT !.advancedFailure = Some(kind)])
    /\ UNCHANGED <<uploadVars, rsz, ret, callVars>>

\* The promise rejects: the child closed with a non-zero code ("exit"), closed
\* with code 0 and output that does not parse ("parse"), or could not be spawned
\* ("spawn"). The catch block builds the Sharp pipeline up to its first await.
AdvancedFails(kind) ==
    /\ opt.pc = "advanced"
    /\ opt' = [opt EXCEPT !.advancedFailure = Some(kind),
                          !.baselineRuns = @ + 1,
                          !.pc = IF opt.shouldReduceDimensions
                                 THEN "metadata" ELSE "encoding"]
    /\ UNCHANGED <<uploadVars, rsz, ret, callVars>>

\* The child never closes and never errors: nothing ends the wait
AdvancedNeverExits ==
    /\ opt.pc = "advanced"
    /\ opt' = [opt EXCEPT !.pc = "hung"]
    /\ UNCHANGED <<uploadVars, rsz, ret, callVars>>

\* pipeline.metadata() resolves: the resize is added to the pipeline
MetadataResolves ==
    /\ opt.pc = "metadata"
    /\ opt' = [opt EXCEPT !.pc = "encoding"]
    /\ UNCHANGED <<uploadVars, rsz, ret, callVars>>

\* pipeline.metadata() rejects (Sharp cannot read the input): outer catch, 500
MetadataRejects ==
    /\ opt.pc = "metadata"
    /\ opt' = Respond([opt EXCEPT !.baselineFailed = TRUE])
    /\ UNCHANGED <<uploadVars, rsz, ret, callVars>>

\* pipeline.toFile(outputPath) resolves: the Sharp output is in place
ToFileResolves ==
    /\ opt.pc = "encoding"
    /\ opt' = Respond([opt EXCEPT !.output =
                           Some([tier |-> "sharp",
                                 format |-> opt.outputFormat,
                                 quality |-> SharpQuality(opt.outputFormat, opt.isLossless),
                                 percent |-> opt.reductionPercent])])
    /\ UNCHANGED <<uploadVars, rsz, ret, callVars>>

\* pipeline.toFile(outputPath) rejects (undecodable input, unwritable output):
\* outer catch, 500
ToFileRejects ==
    /\ opt.pc = "encoding"
    /\ opt' = Respond([opt EXCEPT !.baselineFailed = TRUE])
    /\ UNCHANGED <<uploadVars, rsz, ret, callVars>>

----------------------------------------------------------------------------
(* POST /api/resize-image *)

\* The entries of PLATFORM_DIMENSIONS the requests of the model name
PLATFORM_DIMENSIONS ==
    << [key |-> "instagram-post",    width |-> 1080, height |-> 1080],
       [key |-> "instagram-story",   width |-> 1080, height |-> 1920],
       [key |-> "facebook-post",     width |-> 1200, height |-> 630],
       [key |-> "youtube-thumbnail", width |-> 1280, height |-> 720],
       [key |-> "twitter-header",    width |-> 1500, height |-> 500] >>

\* PLATFORM_DIMENSIONS[platform]: the index of the entry, 0 for undefined
FindDimensions(platform) ==
    LET hits == {i \in DOMAIN PLATFORM_DIMENSIONS : PLATFORM_DIMENSIONS[i].key = platform}
    IN  IF hits = {} THEN 0 ELSE CHOOSE i \in hits : TRUE

\* req.body of a resize request: platform ("" when missing) and the two custom
\* sizes (Null when missing or empty, else the integer the string parses to)
ResizeBody(platform, customWidth, customHeight) ==
    [platform |-> platform, customWidth |-> customWidth, customHeight |-> customHeight]

ResizeBodies ==
    {ResizeBody(p, w, h) :
        p \in {"", "myspace"} \cup {PLATFORM_DIMENSIONS[i].key : i \in DOMAIN PLATFORM_DIMENSIONS},
        w \in {Null, Some(640), Some(1024)},
        h \in {Null, Some(480)}}

\* The dimensions the handler settles on, Null when it answers 400
Dimensions(body) ==
    IF FindDimensions(body.platform) # 0
    THEN Some([width |-> PLATFORM_DIMENSIONS[FindDimensions(body.platform)].width,
               height |-> PLATFORM_DIMENSIONS[FindDimensions(body.platform)].height])
    ELSE IF body.customWidth # Null /\ body.customHeight # Null
    THEN Some([width |-> body.customWidth[1], height |-> body.customHeight[1]])
    ELSE Null

\* What the child wrote to stdout: nothing, JSON with a bounding_box, JSON
\* without one, or text that does not parse
PythonOutputs == {"", "box", "nobox", "junk"}

\* Mutant of CropMethod: a processor that printed nothing is reported as the
\* sharp fallback
CropMethodByOutput(aiProcessingUsed, pythonOutput) ==
    IF ~aiProcessingUsed \/ pythonOutput = "" THEN Some("sharp_attention")
    ELSE CASE pythonOutput = "box" -> Some("ai_detected")
           [] pythonOutput = "nobox" -> Some("center_fallback")
           [] OTHER -> Some("smart_fallback")

\* aiProcessing.cropMethod of the response (Null: aiProcessing stays undefined)
CropMethod(aiProcessingUsed, pythonOutput) ==
    IF ~aiProcessingUsed THEN Some("sharp_attention")
    ELSE CASE pythonOutput = "" -> Null
           [] pythonOutput = "box" -> Some("ai_detected")
           [] pythonOutput = "nobox" -> Some("center_fallback")
           [] OTHER -> Some("smart_fallback")

\* No request yet
RszIdle ==
    [pc |-> "idle",
     dimensions |-> Null,
     aiProcessingUsed |-> FALSE,
     pythonOutput |-> "",
     advancedRuns |-> 0,
     advancedFailure |-> Null,
     baselineRuns |-> 0,
     baselineFailed |-> FALSE,
     output |-> Null,
     resStatus |-> 0,
     cropMethod |-> Null]

\* A request without a file is answered 400
ResizeWithoutFile ==
    /\ rsz.pc = "idle"
    /\ rsz' = [rsz EXCEPT !.pc = "responded", !.resStatus = 400]
    /\ UNCHANGED <<uploadVars, opt, ret, callVars>>

\* The handler up to `await new Promise(...)`: without dimensions it answers
\* 400, otherwise the python3 processor is spawned
ResizeRequest(body) ==
    /\ rsz.pc = "idle"
    /\ rsz' = IF Dimensions(body) = Null
              THEN [rsz EXCEPT !.pc = "responded", !.resStatus = 400]
              ELSE [rsz EXCEPT !.pc = "advanced",
                               !.dimensions = Dimensions(body),
                               !.advancedRuns = @ + 1]
    /\ UNCHANGED <<uploadVars, opt, ret, callVars>>

\* The tail of the handler: statSync of the output (throwing when it is
\* missing: outer catch, 500), cleanup, the aiProcessing block, res.json
ResizeRespond(r) ==
    IF r.output = Null
    THEN [r EXCEPT !.pc = "responded", !.resStatus = 500]
    ELSE [r EXCEPT !.pc = "responded", !.resStatus = 200,
                   !.cropMethod = CropMethod(r.aiProcessingUsed, r.pythonOutput)]

\* The child closes with code 0, having printed `out` and having written the
\* output file or not
AiSucceeds(out, wrote) ==
    /\ rsz.pc = "advanced"
    /\ rsz' = ResizeRespond([rsz EXCEPT !.aiProcessingUsed = TRUE,
                                        !.pythonOutput = out,
                                        !.output = IF wrote
                                                   THEN Some([tier |-> "python",
                                                              dimensions |-> rsz.dimensions[1]])
                                                   ELSE Null])
    /\ UNCHANGED <<uploadVars, opt, ret, callVars>>

\* The promise rejects: the child closed with a non-zero code ("exit") or could
\* not be spawned ("spawn"); the catch block starts the Sharp resize
AiFails(kind) ==
    /\ rsz.pc = "advanced"
    /\ rsz' = [rsz EXCEPT !.pc = "baseline",
                          !.advancedFailure = Some(kind),
                          !.baselineRuns = @ + 1]
    /\ UNCHANGED <<uploadVars, opt, ret, callVars>>

\* The child never closes and never errors
AiNeverExits ==
    /\ rsz.pc = "advanced"
    /\ rsz' = [rsz EXCEPT !.pc = "hung"]
    /\ UNCHANGED <<uploadVars, opt, ret, callVars>>

\* sharp(...).toFile(outputPath) resolves
SharpResolves ==
    /\ rsz.pc = "baseline"
    /\ rsz' = ResizeRespond([rsz EXCEPT !.output =
                                 Some([tier |-> "sharp",
                                       dimensions |-> rsz.dimensions[1]])])
    /\ UNCHANGED <<uploadVars, opt, ret, callVars>>

\* sharp(...).toFile(outputPath) rejects: outer catch, 500
SharpRejects ==
    /\ rsz.pc = "baseline"
    /\ rsz' = ResizeRespond([rsz EXCEPT !.baselineFailed = TRUE])
    /\ UNCHANGED <<uploadVars, opt, ret, callVars>>

----------------------------------------------------------------------------
(* MemStorage, its four methods called with any arguments *)

\* No call yet
NoCall == [op |-> "none"]

\* The InsertUploadJob records of the model
InsertJobs ==
    { [originalFileName |-> "photo.jpg", fileSize |-> 2048,
       mimeType |-> "image/jpeg", platforms |-> << "tiktok" >>,
       status |-> "processing", progress |-> 0, results |-> Null, error |-> Null] }

\* The Partial<UploadJob> records of the model
StoreUpdates ==
    { [progress |-> 50],
      [status |-> "failed", error |-> Some("boom")] }

\* storage.createUploadJob(insertJob)
StoreCreate(insertJob) ==
    LET id == FreshId(uploadJobs)
    IN  /\ id <= MaxStored
        /\ uploadJobs' = Append(uploadJobs, createUploadJob(insertJob, id, now))
        /\ ret' = [op |-> "create", value |-> uploadJobs'[id]]
        /\ UNCHANGED <<orch, writes, reply, resStatus, disk, now, opt, rsz, callVars>>

\* storage.updateUploadJob(id, updates), for a stored id or an unknown one
StoreUpdate(id, updates) ==
    /\ uploadJobs' = updateUploadJob(uploadJobs, id, updates, now)
    /\ ret' = [op |-> "update", id |-> id, updates |-> updates,
               value |-> updateUploadJobReturns(uploadJobs, id, updates, now)]
    /\ UNCHANGED <<orch, writes, reply, resStatus, disk, now, opt, rsz, callVars>>

\* storage.getUploadJob(id)
StoreGet(id) ==
    /\ ret' = [op |-> "get", id |-> id, value |-> getUploadJob(uploadJobs, id)]
    /\ UNCHANGED <<uploadJobs, orch, writes, reply, resStatus, disk, now, opt, rsz, callVars>>

\* storage.getAllUploadJobs()
StoreList ==
    /\ ret' = [op |-> "list", value |-> getAllUploadJobs(uploadJobs)]
    /\ UNCHANGED <<uploadJobs, orch, writes, reply, resStatus, disk, now, opt, rsz, callVars>>

----------------------------------------------------------------------------
(* The crop of a resize: sharp's fit 'cover', and the subject hint *)

\* The largest side of a source image of the model, in pixels
MaxSide == 5

\* width x height
Size(w, h) == [width |-> w, height |-> h]

\* The source images
Sources == {Size(w, h) : w \in 1..MaxSide, h \in 1..MaxSide}

\* The target dimensions, by their aspect ratios
Targets == {Size(1, 1), Size(16, 9), Size(9, 16), Size(3, 1), Size(4, 5), Size(1, 8)}

\* A bounding box, in pixels of the source
Box(x, y, w, h) == [x |-> x, y |-> y, width |-> w, height |-> h]

\* The bounding boxes that lie fully inside the source
BoxesInside(src) ==
    {b \in {Box(x, y, w, h) : x \in 0..(src.width - 1), y \in 0..(src.height - 1),
                              w \in 1..src.width, h \in 1..src.height} :
        b.x + b.width <= src.width /\ b.y + b.height <= src.height}

\* v, kept within lo..hi
Clamp(v, lo, hi) == Max(lo, Min(v, hi))

\* Mutant of CoverSize: fit 'fill', the whole source is squeezed into the target
CoverSizeFills(src, target) == Size(src.width, src.height)

\* fit: 'cover' keeps the aspect ratio of the target and crops what exceeds it:
\* the part of the source that ends up in the output spans one side of the
\* source and, of the other, the share the target's aspect ratio leaves
CoverSize(src, target) ==
    IF src.width * target.height >= src.height * target.width
    THEN Size(Max(1, Round(src.height * target.width, target.height)), src.height)
    ELSE Size(src.width, Max(1, Round(src.width * target.height, target.width)))

\* A crop window of the source
Window(left, top, size) ==
    [left |-> left, top |-> top, width |-> size.width, height |-> size.height]

\* position: 'center'
CenterWindow(src, target) ==
    LET size == CoverSize(src, target)
    IN  Window((src.width - size.width) \div 2, (src.height - size.height) \div 2, size)

\* position: sharp.strategy.attention: the window's place depends on the
\* picture's content, any place where it fits can come out
AttentionWindows(src, target) ==
    LET size == CoverSize(src, target)
    IN  {Window(left, top, size) : left \in 0..(src.width - size.width),
                                   top \in 0..(src.height - size.height)}

\* The window centred on the midpoint of the bounding box, moved back inside
\* the source where it would stick out
HintWindow(src, target, box) ==
    LET size == CoverSize(src, target)
        midX == (2 * box.x + box.width) \div 2
        midY == (2 * box.y + box.height) \div 2
    IN  Window(Clamp(midX - size.width \div 2, 0, src.width - size.width),
               Clamp(midY - size.height \div 2, 0, src.height - size.height),
               size)

\* The windows the resolver may return: with a hint the one around the box,
\* with none the attention-weighted or the centred one
CropWindows(src, target, hint) ==
    IF hint # Null THEN {HintWindow(src, target, hint[1])}
    ELSE {CenterWindow(src, target)} \cup AttentionWindows(src, target)

\* One crop resolution, the first of a behaviour
ResolveCrop(src, target, hint) ==
    /\ crop = NoCall
    /\ \E window \in CropWindows(src, target, hint) :
          crop' = [op |-> "resolve", src |-> src, target |-> target, hint |-> hint,
                   window |-> window]
    /\ UNCHANGED <<uploadVars, opt, rsz, ret, pm, vid, enc>>

----------------------------------------------------------------------------
(* processMedia *)

\* No call of processMedia yet
PmIdle ==
    [pc |-> "idle", mimeType |-> "", mediaType |-> "", outputPath |-> << >>,
     withAnalysis |-> FALSE, closed |-> FALSE, errored |-> FALSE, code |-> Null,
     stdout |-> "", settled |-> "no", value |-> Null, failure |-> Null]

\* The mime types of the calls
MimeTypes == {"image/png", "image/jpeg", "image/jpg", "image/webp", "image/gif",
              "image/bmp", "video/mp4"}

\* The (platform, format) pairs of the calls
MediaPairs == {<<"instagram", "Square">>, <<"youtube", "Thumbnail">>, <<"tiktok", "Video">>}

\* mimeType.startsWith('image/') ? 'image' : 'video'
MediaType(mimeType) == IF IsImage(mimeType) THEN "image" ELSE "video"

\* The extension of the output: the input's for the image types named, jpg for
\* any other image, mp4 for a video
Extension(mimeType) ==
    IF MediaType(mimeType) = "image"
    THEN CASE mimeType = "image/png" -> "png"
           [] mimeType \in {"image/jpeg", "image/jpg"} -> "jpg"
           [] mimeType = "image/webp" -> "webp"
           [] mimeType = "image/gif" -> "gif"
           [] OTHER -> "jpg"
    ELSE "mp4"

\* `${platform}-${format}-${timestamp}.${extension}` in uploads/processed
OutputPath(platform, format, timestamp, extension) ==
    <<platform, format, timestamp, extension>>

\* What the python3 child wrote to stdout: JSON with success true, JSON with
\* success false, or text that does not parse
MediaOutputs == {"success", "failure", "junk"}

\* processMedia is called: the output path is made, the child is spawned in the
\* executor of the promise, and that promise is returned from inside the try
\* block without await. The function's own promise takes the settlement of the
\* returned one; a rejection does not pass through the catch block of line 427.
ProcessMediaCall(mimeType, pair, hasAnalysis) ==
    /\ pm.pc = "idle"
    /\ pm' = [PmIdle EXCEPT
                !.pc = "python",
                !.mimeType = mimeType,
                !.mediaType = MediaType(mimeType),
                !.outputPath = OutputPath(pair[1], pair[2], now, Extension(mimeType)),
                !.withAnalysis = hasAnalysis,
                !.settled = "pending"]
    /\ UNCHANGED <<uploadVars, opt, rsz, ret, vid, enc, crop>>

\* The settlement of the promise: the first resolve or reject counts, a later
\* one changes nothing
Settle(p, how, value, failure) ==
    IF p.settled = "pending"
    THEN [p EXCEPT !.settled = how, !.value = value, !.failure = failure]
    ELSE p

\* The 'close' event of the child: exit code 0 with a parsed success resolves
\* with the path the child reports (the one it was given); everything else
\* rejects
PythonCloses(code, stdout) ==
    /\ pm.pc = "python"
    /\ ~pm.closed
    /\ pm' = [(IF code # 0
               THEN Settle(pm, "rejected", Null, Some("Processing failed with code 1"))
               ELSE CASE stdout = "success" ->
                             Settle(pm, "resolved", Some(pm.outputPath), Null)
                      [] stdout = "failure" ->
                             Settle(pm, "rejected", Null, Some("Python processing failed"))
                      [] OTHER ->
                             Settle(pm, "rejected", Null,
                                    Some("Failed to parse processing result")))
              EXCEPT !.closed = TRUE, !.code = Some(code), !.stdout = stdout]
    /\ UNCHANGED <<uploadVars, opt, rsz, ret, vid, enc, crop>>

\* The 'error' event of the child (python3 cannot be spawned): reject(error).
\* It comes before the 'close' event if it comes at all.
PythonErrors ==
    /\ pm.pc = "python"
    /\ ~pm.closed /\ ~pm.errored
    /\ pm' = [Settle(pm, "rejected", Null, Some("spawn python3 ENOENT"))
              EXCEPT !.errored = TRUE]
    /\ UNCHANGED <<uploadVars, opt, rsz, ret, vid, enc, crop>>

----------------------------------------------------------------------------
(* POST /api/resize-compress-video *)

\* The entries of VIDEO_PLATFORMS the requests of the model name
VIDEO_PLATFORMS ==
    << [key |-> "tiktok",        width |-> 1080, height |-> 1920, bitrate |-> "2M"],
       [key |-> "youtube-1080p", width |-> 1920, height |-> 1080, bitrate |-> "5M"],
       [key |-> "youtube-720p",  width |-> 1280, height |-> 720,  bitrate |-> "3M"] >>

\* VIDEO_PLATFORMS[platform]: the index of the entry, 0 for undefined
FindVideoPlatform(platform) ==
    LET hits == {i \in DOMAIN VIDEO_PLATFORMS : VIDEO_PLATFORMS[i].key = platform}
    IN  IF hits = {} THEN 0 ELSE CHOOSE i \in hits : TRUE

\* req.body of a video request: platform ("" when missing), the custom sizes
\* (Null when missing, else the integer the string parses to), compress and
\* quality (Null when missing)
VideoBody(platform, customWidth, customHeight, compress, quality) ==
    [platform |-> platform, customWidth |-> customWidth, customHeight |-> customHeight,
     compress |-> compress, quality |-> quality]

VideoBodies ==
    {VideoBody(p, w, h, c, q) :
        p \in {"", "myspace"} \cup {VIDEO_PLATFORMS[i].key : i \in DOMAIN VIDEO_PLATFORMS},
        w \in {Null, Some(640), Some(1280)},
        h \in {Null, Some(360)},
        c \in {"", "true"},
        q \in {Null, Some("18")}}

\* The config the handler settles on, Null when it answers 400
VideoConfig(body) ==
    IF FindVideoPlatform(body.platform) # 0
    THEN Some([width |-> VIDEO_PLATFORMS[FindVideoPlatform(body.platform)].width,
               height |-> VIDEO_PLATFORMS[FindVideoPlatform(body.platform)].height,
               bitrate |-> VIDEO_PLATFORMS[FindVideoPlatform(body.platform)].bitrate])
    ELSE IF body.customWidth # Null /\ body.customHeight # Null
    THEN Some([width |-> body.customWidth[1], height |-> body.customHeight[1],
               bitrate |-> "3M"])
    ELSE Null

\* The -crf values of ffmpegArgs, in order: quality || '23', and '28' spliced
\* in before '-y' when compress === 'true'
CrfArgs(body) ==
    << (IF body.quality # Null THEN body.quality[1] ELSE "23") >>
        \o (IF body.compress = "true" THEN << "28" >> ELSE << >>)

\* No request yet
VidIdle ==
    [pc |-> "idle",
     config |-> Null,
     crf |-> << >>,
     errored |-> FALSE,       \* the 'error' event has been handled
     closed |-> FALSE,        \* the 'close' event has been handled
     input |-> FALSE,         \* req.file.path exists
     output |-> FALSE,        \* outputPath exists
     headersSent |-> FALSE,
     attempts |-> 0,          \* calls of res.json so far
     resStatus |-> 0,
     uncaught |-> FALSE]      \* an exception left an event handler

\* res.status(status).json(...): the first call sends the response, a call
\* after that throws ERR_HTTP_HEADERS_SENT
Send(v, status) ==
    IF v.headersSent
    THEN [v EXCEPT !.attempts = @ + 1, !.uncaught = TRUE]
    ELSE [v EXCEPT !.attempts = @ + 1, !.headersSent = TRUE, !.resStatus = status]

\* A request without a file is answered 400
VideoWithoutFile ==
    /\ vid.pc = "idle"
    /\ vid' = [Send(vid, 400) EXCEPT !.pc = "returned"]
    /\ UNCHANGED <<uploadVars, opt, rsz, ret, pm, enc, crop>>

\* The handler, to its end: without a config it answers 400, otherwise ffmpeg is
\* spawned, the two listeners are registered and the handler returns
VideoRequest(body) ==
    /\ vid.pc = "idle"
    /\ vid' = IF VideoConfig(body) = Null
              THEN [Send(vid, 400) EXCEPT !.pc = "returned"]
              ELSE [vid EXCEPT !.pc = "ffmpeg",
                               !.config = VideoConfig(body),
                               !.crf = CrfArgs(body),
                               !.input = TRUE]
    /\ UNCHANGED <<uploadVars, opt, rsz, ret, pm, enc, crop>>

\* The 'close' event, with the exit code and with the output written or not.
\* Code 0: statSync of the output and of the input (throwing when one is
\* missing), unlink of the input, res.json. Any other code: both files are
\* removed and res.status(500).json is called, whether or not a response has
\* been sent. After an 'error' event the code is not 0 and nothing was written.
FfmpegClose(code, wrote) ==
    /\ vid.pc = "ffmpeg"
    /\ ~vid.closed
    /\ vid.errored => code # 0 /\ ~wrote
    /\ LET v == [vid EXCEPT !.closed = TRUE, !.output = wrote]
       IN  vid' = IF code = 0
                  THEN IF ~v.output \/ ~v.input
                       THEN [v EXCEPT !.uncaught = TRUE]
                       ELSE Send([v EXCEPT !.input = FALSE], 200)
                  ELSE Send([v EXCEPT !.input = FALSE, !.output = FALSE], 500)
    /\ UNCHANGED <<uploadVars, opt, rsz, ret, pm, enc, crop>>

\* The 'error' event (ffmpeg cannot be spawned), before the 'close' event: both
\* files are removed, and the 500 is sent unless res.headersSent
FfmpegError ==
    /\ vid.pc = "ffmpeg"
    /\ ~vid.closed /\ ~vid.errored
    /\ LET v == [vid EXCEPT !.errored = TRUE, !.input = FALSE, !.output = FALSE]
       IN  vid' = IF v.headersSent THEN v ELSE Send(v, 500)
    /\ UNCHANGED <<uploadVars, opt, rsz, ret, pm, enc, crop>>

----------------------------------------------------------------------------
(* SquooshOptimizer.getOptimalEncodingOptions *)

\* The largest input of the model, in steps of 256 KiB
MaxSizeSteps == 24

\* The input sizes, in bytes: the steps, and one byte past each threshold
OriginalSizes ==
    {k * 256 * 1024 : k \in 0..MaxSizeSteps} \cup
    {2 * 1024 * 1024 + 1, 5 * 1024 * 1024 + 1}

\* The formats of the calls
EncoderFormats == {"jpeg", "JPEG", "webp", "png", "avif", "gif"}

\* format.toLowerCase()
ToLowerCase(format) == IF format = "JPEG" THEN "jpeg" ELSE format

\* let quality = base; if (originalSize > 2 MB) quality = second;
\* else if (originalSize > 5 MB) quality = third
AdaptiveQuality(originalSize, base, second, third) ==
    IF originalSize > 2 * 1024 * 1024 THEN second
    ELSE IF originalSize > 5 * 1024 * 1024 THEN third
    ELSE base

\* The options returned: the encoder and what decides its quality (quality for
\* mozjpeg and webp, cqLevel = 100 - quality for avif, level for oxipng); Null
\* when the format is not supported and the function throws
EncodingOptions(format, originalSize) ==
    LET f == ToLowerCase(format)
    IN  CASE f = "jpeg" ->
                Some([encoder |-> "mozjpeg",
                      quality |-> AdaptiveQuality(originalSize, 85, 75, 70)])
          [] f = "webp" ->
                Some([encoder |-> "webp",
                      quality |-> AdaptiveQuality(originalSize, 85, 80, 75)])
          [] f = "png" ->
                Some([encoder |-> "oxipng", level |-> 6])
          [] f = "avif" ->
                Some([encoder |-> "avif",
                      cqLevel |-> 100 - AdaptiveQuality(originalSize, 80, 75, 70)])
          [] OTHER -> Null

\* One call of getOptimalEncodingOptions, the first of a behaviour
GetOptimalEncodingOptions(format, originalSize) ==
    /\ enc = NoCall
    /\ enc' = [op |-> "options", format |-> format, originalSize |-> originalSize,
               options |-> EncodingOptions(format, originalSize)]
    /\ UNCHANGED <<uploadVars, opt, rsz, ret, pm, vid, crop>>

----------------------------------------------------------------------------
(* The specification *)

Init ==
    /\ uploadJobs = << >>
    /\ orch = << >>
    /\ writes = << >>
    /\ reply = << >>
    /\ resStatus = 0
    /\ disk = {}
    /\ now = 0
    /\ opt = OptIdle
    /\ rsz = RszIdle
    /\ ret = NoCall
    /\ pm = PmIdle
    /\ vid = VidIdle
    /\ enc = NoCall
    /\ crop = NoCall

Jobs == DOMAIN orch

\* Mutant of Step: the jobs are served one at a time, a job's continuation runs
\* only when no other job is waiting for an external call
StepWaitsForOthers(j) ==
    /\ \A k \in DOMAIN orch \ {j} : orch[k].pc \notin {"analyzing", "task", "hung"}
    /\ \/ Start(j)
       \/ BeginAnalysis(j)
       \/ AnalysisResolves(j)
       \/ AnalysisRejects(j)
       \/ EnterLoop(j)
       \/ TaskResolves(j)
       \/ TaskRejects(j)
       \/ ChildNeverExits(j)
       \/ AfterProgress(j)
       \/ UnlinkSucceeds(j)
       \/ UnlinkThrows(j)

\* One continuation of job j's processMediaAsync, or one outcome of the external
\* call it is waiting for
Step(j) ==
    \/ Start(j)
    \/ BeginAnalysis(j)
    \/ AnalysisResolves(j)
    \/ AnalysisRejects(j)
    \/ EnterLoop(j)
    \/ TaskResolves(j)
    \/ TaskRejects(j)
    \/ ChildNeverExits(j)
    \/ AfterProgress(j)
    \/ UnlinkSucceeds(j)
    \/ UnlinkThrows(j)

Next ==
    \/ \E file \in Files, body \in Bodies : Submit(file, body)
    \/ \E j \in Jobs : Start(j)
    \/ \E j \in Jobs : BeginAnalysis(j)
    \/ \E j \in Jobs : AnalysisResolves(j)
    \/ \E j \in Jobs : AnalysisRejects(j)
    \/ \E j \in Jobs : EnterLoop(j)
    \/ \E j \in Jobs : TaskResolves(j)
    \/ \E j \in Jobs : TaskRejects(j)
    \/ \E j \in Jobs : ChildNeverExits(j)
    \/ \E j \in Jobs : AfterProgress(j)
    \/ \E j \in Jobs : UnlinkSucceeds(j)
    \/ \E j \in Jobs : UnlinkThrows(j)
    \/ \E j \in Jobs : InputLost(j)

\* The orchestrator with the clock standing still
Spec == Init /\ [][Next]_vars

NextTimed == Next \/ Tick

\* The orchestrator with time passing between its steps
SpecTimed == Init /\ [][NextTimed]_vars

NextOptimize ==
    \/ OptimizeWithoutFile
    \/ \E ext \in Extensions, body \in OptimizeBodies : OptimizeRequest(ext, body)
    \/ \E wrote \in BOOLEAN : AdvancedSucceeds(wrote)
    \/ \E kind \in {"exit", "parse", "spawn"} : AdvancedFails(kind)
    \/ AdvancedNeverExits
    \/ MetadataResolves
    \/ MetadataRejects
    \/ ToFileResolves
    \/ ToFileRejects

\* One POST /api/optimize-convert request
SpecOptimize == Init /\ [][NextOptimize]_vars

NextResize ==
    \/ ResizeWithoutFile
    \/ \E body \in ResizeBodies : ResizeRequest(body)
    \/ \E out \in PythonOutputs, wrote \in BOOLEAN : AiSucceeds(out, wrote)
    \/ \E kind \in {"exit", "spawn"} : AiFails(kind)
    \/ AiNeverExits
    \/ SharpResolves
    \/ SharpRejects

\* One POST /api/resize-image request
SpecResize == Init /\ [][NextResize]_vars

\* The request of the two-job runs
PairFile == [originalname |-> "photo.jpg", size |-> 2048, mimetype |-> "image/jpeg"]

PairBodies ==
    { Body(TRUE, << Entry("instagram", <<"Square">>) >>, FALSE, << >>),
      Body(TRUE, << Entry("youtube", <<"Thumbnail">>) >>, FALSE, << >>) }

NextPair ==
    \/ \E body \in PairBodies : SubmitWithin(PairFile, body, MaxPair)
    \/ \E j \in Jobs : Step(j)

\* Jobs running side by side, the clock standing still
SpecPair == Init /\ [][NextPair]_vars

NextPairTimed ==
    \/ NextPair
    \/ Tick

\* Jobs running side by side, time passing between their steps
SpecPairTimed == Init /\ [][NextPairTimed]_vars

\* The request of the runs of like jobs
TwinBody == Body(TRUE, << Entry("instagram", <<"Square">>) >>, FALSE, << >>)

NextTwins ==
    \/ SubmitWithin(PairFile, TwinBody, MaxPair)
    \/ \E j \in Jobs : Step(j)

\* Jobs of one and the same request running side by side
SpecTwins == Init /\ [][NextTwins]_vars

NextSolo ==
    \/ uploadJobs = << >> /\ \E file \in Files, body \in Bodies : Submit(file, body)
    \/ \E j \in Jobs : Step(j)
    \/ \E j \in Jobs : InputLost(j)
    \/ Tick

\* One job alone, time passing between its steps
SpecSolo == Init /\ [][NextSolo]_vars

NextStore ==
    \/ \E insertJob \in InsertJobs : StoreCreate(insertJob)
    \/ \E id \in 1..(MaxStored + 1), updates \in StoreUpdates : StoreUpdate(id, updates)
    \/ \E id \in 1..(MaxStored + 1) : StoreGet(id)
    \/ StoreList
    \/ Tick

\* The job store alone, time passing between the calls
SpecStore == Init /\ [][NextStore]_vars

NextCrop ==
    \E src \in Sources, target \in Targets :
        \E hint \in {Null} \cup {Some(b) : b \in BoxesInside(src)} :
            ResolveCrop(src, target, hint)

\* The crop resolver alone, called with any source, target and hint
SpecCrop == Init /\ [][NextCrop]_vars

NextMedia ==
    \/ \E mimeType \in MimeTypes, pair \in MediaPairs, hasAnalysis \in BOOLEAN :
          ProcessMediaCall(mimeType, pair, hasAnalysis)
    \/ \E code \in {0, 1}, stdout \in MediaOutputs : PythonCloses(code, stdout)
    \/ PythonErrors

\* One call of processMedia
SpecMedia == Init /\ [][NextMedia]_vars

NextVideo ==
    \/ VideoWithoutFile
    \/ \E body \in VideoBodies : VideoRequest(body)
    \/ \E code \in {0, 1}, wrote \in BOOLEAN : FfmpegClose(code, wrote)
    \/ FfmpegError

\* One POST /api/resize-compress-video request
SpecVideo == Init /\ [][NextVideo]_vars

\* The legacy requests: a platforms list and no selectedFormats
LegacyBodies ==
    {Body(FALSE, << >>, TRUE, pl) :
        pl \in {<< >>, <<"myspace">>, <<"tiktok">>, <<"tiktok", "tiktok">>,
                <<"myspace", "youtube">>, <<"youtube", "orkut", "tiktok">>,
                <<"instagram">>}}

NextLegacy ==
    \/ uploadJobs = << >> /\ \E file \in Files, body \in LegacyBodies : Submit(file, body)
    \/ \E j \in Jobs : Step(j)

\* One job submitted the legacy way
SpecLegacy == Init /\ [][NextLegacy]_vars

NextEncoder ==
    \E format \in EncoderFormats, originalSize \in OriginalSizes :
        GetOptimalEncodingOptions(format, originalSize)

\* getOptimalEncodingOptions alone, called with any format and size
SpecEncoder == Init /\ [][NextEncoder]_vars

\* The two handlers share no state: a behaviour serves one request, to either
NextChains ==
    \/ rsz.pc = "idle" /\ NextOptimize
    \/ opt.pc = "idle" /\ NextResize

\* One request to one of the two handlers with a fallback chain
SpecChains == Init /\ [][NextChains]_vars

----------------------------------------------------------------------------
(* Vocabulary of the properties *)

Terminal(status) == status \in {"completed", "failed"}

\* The store writes of job j that left it in the given status
WritesIn(j, status) == {i \in DOMAIN writes[j] : writes[j][i].status = status}

\* The Phase B progress writes of job j: create, the 10 and the 30 come first
PhaseBWrites(j) == {i \in WritesIn(j, "processing") : i > 3}

\* The position of job j's completed write (0: none yet)
CompletedAt(j) ==
    IF WritesIn(j, "completed") = {} THEN 0
    ELSE CHOOSE i \in WritesIn(j, "completed") : \A k \in WritesIn(j, "completed") : i <= k

\* The loops of job j are over and its completed update is written
LoopsOver(j) == orch[j].pc \in {"completed", "done"}

\* Job j's task has just finished by throwing: the step leaves "task" and pushes
\* no result
TaskThrew(j) ==
    /\ orch[j].pc = "task"
    /\ orch'[j] # orch[j]
    /\ orch'[j].pc \notin {"hung", "progressed"}

\* Job j's task has just finished, with a result or by throwing
TaskFinished(j) ==
    /\ orch[j].pc = "task"
    /\ orch'[j] # orch[j]
    /\ orch'[j].pc # "hung"

----------------------------------------------------------------------------
(* C1 *)

\* C1 (as claimed): once a job's status is completed or failed, no later step
\* writes a different status to it.
TerminalStatusNeverChanges ==
    [][\A j \in Jobs : Terminal(uploadJobs[j].status)
                          => uploadJobs'[j].status = uploadJobs[j].status]_vars

----------------------------------------------------------------------------
(* C2 *)

\* C2 (as claimed): in every reachable state of every job, progress is 100 if and
\* only if status is completed.
ProgressHundredIffCompleted ==
    \A j \in Jobs : (uploadJobs[j].progress = 100) <=> (uploadJobs[j].status = "completed")

----------------------------------------------------------------------------
(* C3 *)

\* C3: the progress values written to the store for a job never decrease from
\* one write to the next, and each is an integer in 0..100, whatever the analysis
\* and the tasks did.
ProgressMonotoneInRange ==
    \A j \in Jobs :
        /\ \A i \in DOMAIN writes[j] : writes[j][i].progress \in 0..100
        /\ \A i \in DOMAIN writes[j] :
              i > 1 => writes[j][i - 1].progress <= writes[j][i].progress

\* C3 witness: a three-format job has completed although a task failed, after
\* five or more writes.
WitnessProgressSequence ==
    \E j \in Jobs :
        /\ LoopsOver(j)
        /\ orch[j].totalFormats = 3
        /\ Len(orch[j].results) = 2
        /\ Len(writes[j]) >= 6

----------------------------------------------------------------------------
(* C4 *)

\* C4: a format task that throws leaves the job processing with processMedia
\* called for the next runnable format, or, when it was the last one, completed;
\* it never makes the job failed, and a job whose loops are over was written
\* completed.
TaskFailureContained ==
    /\ [][\A j \in Jobs : TaskThrew(j) =>
            LET tasks == Tasks(orch[j].selectedFormats)
                nxt == NextTask(tasks, orch[j].cursor + 1)
            IN  IF nxt <= Len(tasks)
                THEN /\ orch'[j].pc = "task"
                     /\ orch'[j].cursor = nxt
                     /\ uploadJobs'[j].status = "processing"
                ELSE uploadJobs'[j].status = "completed"]_vars
    /\ [](\A j \in Jobs : orch[j].pc = "done" => CompletedAt(j) # 0)

\* C4 witness: of three requested formats the second failed, the first and the
\* third produced results, and the job is completed.
WitnessTaskFailureContained ==
    \E j \in Jobs :
        /\ uploadJobs[j].status = "completed"
        /\ orch[j].totalFormats = 3
        /\ Len(orch[j].results) = 2
        /\ orch[j].results[1].format = "Square"
        /\ orch[j].results[2].platform = "TikTok"

----------------------------------------------------------------------------
(* C5 *)

\* C5 (as claimed): after each format task finishes, whether it succeeded or
\* threw, processedFormats is one more than before.
EveryFinishedTaskCounted ==
    [][\A j \in Jobs : TaskFinished(j) =>
            orch'[j].processedFormats = orch[j].processedFormats + 1]_vars

----------------------------------------------------------------------------
(* C6 *)

\* C6 (as claimed): a job with totalFormats = N > 0 whose loops are over has had
\* exactly N Phase B progress writes, and the write before the completed one
\* left progress 90.
PhaseBWritesAreN ==
    \A j \in Jobs :
        (LoopsOver(j) /\ orch[j].totalFormats > 0) =>
            /\ Cardinality(PhaseBWrites(j)) = orch[j].totalFormats
            /\ writes[j][CompletedAt(j) - 1].progress = 90

----------------------------------------------------------------------------
(* C7 *)

\* C7 (as claimed): every progress value stored is 0, 30, 100, or
\* 30 + round(60*k/totalFormats) for some k in 1..totalFormats.
ProgressValuesAsClaimed ==
    \A j \in Jobs : \A i \in DOMAIN writes[j] :
        writes[j][i].progress \in
            {0, 30, 100} \cup {30 + Round(60 * k, orch[j].totalFormats) :
                                  k \in 1..orch[j].totalFormats}

\* C7 (amended): the progress stored by a job's i-th write is fixed by the phase
\* and the counters: 0 at creation, 10 when processMediaAsync starts, 30 at the
\* end of Phase A, 30 + round(60*k/totalFormats) after the k-th successful task
\* (k <= totalFormats), 100 at completion; a later write leaves it as it is.
ProgressIsComputed ==
    \A j \in Jobs : \A i \in DOMAIN writes[j] :
        LET w == writes[j][i]
        IN  CASE i = 1 -> w.progress = 0
              [] i = 2 -> w.progress = 10
              [] i = 3 -> w.progress = 30
              [] i > 3 /\ w.status = "processing" ->
                    /\ i - 3 <= orch[j].totalFormats
                    /\ w.progress = 30 + Round(60 * (i - 3), orch[j].totalFormats)
              [] i > 3 /\ w.status = "completed" -> w.progress = 100
              [] OTHER -> w.progress = writes[j][i - 1].progress

\* C7 witness: a job has written the creation, start, Phase A, two Phase B and
\* the completion values.
WitnessProgressIsComputed ==
    \E j \in Jobs :
        /\ Cardinality(PhaseBWrites(j)) = 2
        /\ CompletedAt(j) = 6

----------------------------------------------------------------------------
(* C8 *)

\* The submission of scenario A: one image, one existing format, task succeeded
ScenarioA(j) ==
    /\ IsImage(orch[j].mimeType)
    /\ Len(Tasks(orch[j].selectedFormats)) = 1
    /\ Runnable(Tasks(orch[j].selectedFormats)[1])
    /\ Len(orch[j].results) = 1
    /\ LoopsOver(j)

St(status, progress) == [status |-> status, progress |-> progress]

\* C8 (as claimed): the states of such a job are exactly processing(0),
\* processing(30), processing(90), completed(100).
ScenarioAAsClaimed ==
    \A j \in Jobs :
        ScenarioA(j) =>
            SubSeq(writes[j], 1, CompletedAt(j)) =
                << St("processing", 0), St("processing", 30),
                   St("processing", 90), St("completed", 100) >>

\* C8 (amended): the states of such a job up to its completion are exactly
\* processing(0), processing(10), processing(30), processing(90),
\* completed(100), and the completed update carries exactly one result.
ScenarioASequence ==
    \A j \in Jobs :
        ScenarioA(j) =>
            /\ SubSeq(writes[j], 1, CompletedAt(j)) =
                  << St("processing", 0), St("processing", 10), St("processing", 30),
                     St("processing", 90), St("completed", 100) >>
            /\ uploadJobs[j].results # Null
            /\ Len(uploadJobs[j].results[1]) = 1

\* C8 witness: a scenario A job is completed.
WitnessScenarioA ==
    \E j \in Jobs : ScenarioA(j) /\ uploadJobs[j].status = "completed"

----------------------------------------------------------------------------
(* C9 *)

\* C9: as soon as processMediaAsync has been called the caller has its response,
\* the job as created (status processing, progress 0, no results), and this
\* while the analysis and every format task are still to come: the response is
\* there in every state in which the job waits for an external call.
SubmitAnswersAtOnce ==
    \A j \in Jobs :
        /\ orch[j].pc = "called" => reply[j] = Null
        /\ orch[j].pc # "called" =>
              /\ reply[j] # Null
              /\ reply[j][1].id = j
              /\ reply[j][1].status = "processing"
              /\ reply[j][1].progress = 0
              /\ reply[j][1].results = Null

\* C9 witness: the response is out and the job waits for the vision call.
WitnessSubmitAnswersAtOnce ==
    \E j \in Jobs : reply[j] # Null /\ orch[j].pc = "analyzing"

----------------------------------------------------------------------------
(* C10 *)

\* C10 (as claimed): no job stays in processing forever: a job that is not yet
\* completed or failed can always take a further step.
NoJobStuckProcessing ==
    \A j \in Jobs : Terminal(uploadJobs[j].status) \/ ENABLED Step(j)

----------------------------------------------------------------------------
(* C11 *)

\* Job j's processMediaAsync is past the progress-30 update and what follows it
PastCheckpoint(j) == orch[j].pc \notin {"called", "started", "analyzing", "checkpoint"}

\* C11 (as claimed, for its example): a job whose input file cannot be read at
\* all goes from processing to failed: it starts no format task and is not
\* written completed.
UnreadableInputFailsJob ==
    \A j \in Jobs :
        (j \notin disk /\ PastCheckpoint(j) /\ orch[j].pc # "done") =>
            /\ uploadJobs[j].status = "failed"
            /\ orch[j].attempted = {}

\* C11 (amended): an error thrown outside the analysis and outside every format
\* task while the job is processing (the totalFormats reduce throwing) takes the
\* job from processing to failed with the captured message, before any format
\* task, and nothing of the job changes afterwards; a step that takes a job from
\* processing to failed is such an abort.
SetupErrorFailsJob ==
    /\ [](\A j \in Jobs :
            /\ (ReduceThrows(orch[j].selectedFormats) /\ PastCheckpoint(j))
                  => orch[j].pc = "aborted"
            /\ orch[j].pc = "aborted" =>
                  /\ uploadJobs[j].status = "failed"
                  /\ uploadJobs[j].error # Null
                  /\ writes[j][Len(writes[j]) - 1].status = "processing"
                  /\ orch[j].attempted = {}
                  /\ CompletedAt(j) = 0)
    /\ [][\A j \in Jobs :
            /\ orch[j].pc = "aborted" =>
                  orch'[j] = orch[j] /\ uploadJobs'[j] = uploadJobs[j]
            /\ (uploadJobs[j].status = "processing" /\ uploadJobs'[j].status = "failed")
                  => orch'[j].pc = "aborted"]_vars

\* C11 witness: a job was aborted by the outer catch handler after its
\* progress-30 update.
WitnessSetupErrorFailsJob ==
    \E j \in Jobs :
        /\ orch[j].pc = "aborted"
        /\ uploadJobs[j].status = "failed"
        /\ Len(writes[j]) = 4

----------------------------------------------------------------------------
(* C12 *)

\* C12: in every state of every job, error is non-null if and only if status is
\* failed.
ErrorIffFailed ==
    \A j \in Jobs : (uploadJobs[j].error # Null) <=> (uploadJobs[j].status = "failed")

\* C12 witness: a failed job carries its message.
WitnessErrorIffFailed ==
    \E j \in Jobs : uploadJobs[j].status = "failed" /\ uploadJobs[j].error # Null

----------------------------------------------------------------------------
(* C13 *)

\* The step in which job j's subject analysis fails: readFileSync throws, or the
\* vision call rejects or answers something that does not parse
AnalysisFailed(j) ==
    \/ /\ orch[j].pc = "analyzing"
       /\ orch'[j].pc # "analyzing"
       /\ ~orch'[j].subjectAnalysis
    \/ /\ orch[j].pc = "started"
       /\ IsImage(orch[j].mimeType)
       /\ j \notin disk
       /\ orch'[j] # orch[j]

\* C13: a failing subject analysis leaves the job processing, at the Phase A
\* checkpoint, with no hint; it never makes the job failed.
AnalysisFailureAbsorbed ==
    [][\A j \in Jobs : AnalysisFailed(j) =>
            /\ orch'[j].pc = "checkpoint"
            /\ ~orch'[j].subjectAnalysis
            /\ uploadJobs'[j].status = "processing"
            /\ uploadJobs'[j].progress = 30
            /\ uploadJobs'[j].error = Null]_vars

\* C13 witness: an image job whose analysis failed is in Phase B, a format task
\* running without a hint.
WitnessAnalysisFailureAbsorbed ==
    \E j \in Jobs :
        /\ IsImage(orch[j].mimeType)
        /\ orch[j].pc = "task"
        /\ ~orch[j].subjectAnalysis
        /\ uploadJobs[j].status = "processing"

----------------------------------------------------------------------------
(* C14 *)

\* The writes of job j that set the Phase A checkpoint
CheckpointWrites(j) ==
    {i \in WritesIn(j, "processing") : writes[j][i].progress = 30}

\* C14: before the end of Phase A the checkpoint 30 is not written; from then on
\* it has been written exactly once, as the job's third write, whether the
\* analysis succeeded, failed or was skipped, and before any format task.
CheckpointWrittenOnce ==
    \A j \in Jobs :
        /\ orch[j].pc \in {"called", "started", "analyzing"} =>
              CheckpointWrites(j) = {} /\ orch[j].attempted = {}
        /\ orch[j].pc \notin {"called", "started", "analyzing"} =>
              CheckpointWrites(j) = {3}

\* C14 witness: a video job (no analysis) runs its first format task after the
\* checkpoint.
WitnessCheckpointWrittenOnce ==
    \E j \in Jobs :
        /\ ~IsImage(orch[j].mimeType)
        /\ orch[j].pc = "task"
        /\ CheckpointWrites(j) = {3}

----------------------------------------------------------------------------
(* C15 *)

\* The positions of the requested pairs that name a catalog platform and one of
\* its formats
RunnablePairs(j) ==
    LET tasks == Tasks(orch[j].selectedFormats)
    IN  {i \in DOMAIN tasks : Runnable(tasks[i])}

\* C15 (as claimed): a job is written completed only after every requested
\* (platform, format) pair has been attempted.
EveryRequestedPairAttempted ==
    \A j \in Jobs :
        CompletedAt(j) # 0 => orch[j].attempted = DOMAIN Tasks(orch[j].selectedFormats)

\* C15 (amended): a job is written completed only after every requested pair
\* that names a catalog platform and format has been attempted and its task has
\* finished; pairs naming an unknown platform or format are skipped, never
\* attempted; no task is pending or running once completed is written.
EveryRunnablePairAttempted ==
    \A j \in Jobs :
        /\ orch[j].attempted \subseteq RunnablePairs(j)
        /\ CompletedAt(j) # 0 =>
              /\ orch[j].attempted = RunnablePairs(j)
              /\ LoopsOver(j)
        /\ orch[j].pc \in {"task", "hung", "progressed"} =>
              uploadJobs[j].status = "processing"

\* C15 witness: a job is completed with one pair attempted and another skipped.
WitnessEveryRunnablePairAttempted ==
    \E j \in Jobs :
        /\ uploadJobs[j].status = "completed"
        /\ orch[j].attempted # {}
        /\ orch[j].attempted # DOMAIN Tasks(orch[j].selectedFormats)

----------------------------------------------------------------------------
(* C16 *)

\* What a reader of job j's record sees as its results (null shown as empty)
ShownResults(j) ==
    IF uploadJobs[j].results = Null THEN << >> ELSE uploadJobs[j].results[1]

\* C16 (as claimed): while a job is processing, its record shows the results of
\* the format tasks that have succeeded so far: none before the first, k after
\* the k-th.
ResultsShownIncrementally ==
    \A j \in Jobs :
        uploadJobs[j].status = "processing" => ShownResults(j) = orch[j].results

\* C16 (amended): the record's results are null as long as the completed update
\* has not been written, however many tasks have succeeded; the completed update
\* sets them, once, to all the results accumulated.
ResultsPublishedAtCompletion ==
    \A j \in Jobs :
        /\ CompletedAt(j) = 0 => uploadJobs[j].results = Null
        /\ CompletedAt(j) # 0 => uploadJobs[j].results = Some(orch[j].results)

\* C16 witness: a processing job has a finished task's result and a record
\* whose results are still null.
WitnessResultsPublishedAtCompletion ==
    \E j \in Jobs :
        /\ uploadJobs[j].status = "processing"
        /\ Len(orch[j].results) >= 1
        /\ uploadJobs[j].results = Null

----------------------------------------------------------------------------
(* C17 *)

\* Job j's task has just finished with success
TaskSucceeded(j) == orch[j].pc = "task" /\ orch'[j].pc = "progressed"

\* C17: a successful task appends its one entry to the job's results, every
\* other step (a failed task, a skipped pair) leaves them as they are; the
\* completed record holds exactly these entries in that order, and they never
\* change afterwards.
ResultsAreTheSuccesses ==
    /\ [][\A j \in Jobs :
            /\ orch'[j].results =
                  IF TaskSucceeded(j)
                  THEN Append(orch[j].results,
                              Result(Tasks(orch[j].selectedFormats)[orch[j].cursor],
                                     orch[j].timestamp))
                  ELSE orch[j].results
            /\ uploadJobs[j].results # Null =>
                  uploadJobs'[j].results = uploadJobs[j].results]_vars
    /\ [](\A j \in Jobs :
            /\ Len(orch[j].results) = orch[j].processedFormats
            /\ uploadJobs[j].status = "completed" =>
                  uploadJobs[j].results = Some(orch[j].results))

\* C17 witness: a completed job whose results hold fewer entries than tasks
\* were attempted, and at least one.
WitnessResultsAreTheSuccesses ==
    \E j \in Jobs :
        /\ uploadJobs[j].status = "completed"
        /\ Len(ShownResults(j)) >= 1
        /\ Len(ShownResults(j)) < Cardinality(orch[j].attempted)

----------------------------------------------------------------------------
(* C18 *)

\* C18: in every state, a job has no more results, accumulated or in its
\* record, than formats were requested for it.
ResultsWithinTotal ==
    \A j \in Jobs :
        /\ Len(orch[j].results) <= TotalFormats(orch[j].selectedFormats)
        /\ Len(ShownResults(j)) <= TotalFormats(orch[j].selectedFormats)
        /\ (PastCheckpoint(j) /\ orch[j].pc # "aborted") =>
              orch[j].totalFormats = TotalFormats(orch[j].selectedFormats)

\* C18 witness: a job has as many results as formats requested, more than one.
WitnessResultsWithinTotal ==
    \E j \in Jobs :
        /\ orch[j].totalFormats >= 2
        /\ Len(orch[j].results) = orch[j].totalFormats
        /\ Len(ShownResults(j)) = orch[j].totalFormats

----------------------------------------------------------------------------
(* C19 *)

\* C19 (as claimed): an update to a record whose status is completed or failed
\* has no effect: no field of the record changes after the terminal status was
\* written.
PostTerminalUpdateHasNoEffect ==
    [][\A j \in Jobs : Terminal(uploadJobs[j].status)
                          => uploadJobs'[j] = uploadJobs[j]]_vars

----------------------------------------------------------------------------
(* C20 *)

----------------------------------------------------------------------------
(* C21 *)

\* C21 (as claimed): the wait for the advanced tier is bounded: a request that
\* has not been answered can always take a step (the advanced tier answers, or
\* the deadline turns the wait into a tier failure and the baseline tier runs).
AdvancedAttemptIsBounded ==
    opt.pc \in {"idle", "responded"} \/ ENABLED NextOptimize

----------------------------------------------------------------------------
(* C22 *)

\* C22: in one invocation of either chain the advanced tier is started at most
\* once, the baseline tier at most once and only after the advanced tier has
\* failed; when the advanced tier succeeded the baseline tier has not run and
\* the artifact is the advanced tier's.
TiersRunAtMostOnce ==
    /\ opt.advancedRuns <= 1 /\ opt.baselineRuns <= 1
    /\ opt.baselineRuns = 1 <=> opt.advancedFailure # Null
    /\ opt.advancedFailure # Null => opt.advancedRuns = 1
    /\ opt.professionalOptimizationUsed =>
          opt.baselineRuns = 0 /\ (opt.output # Null => opt.output[1].tier = "python")
    /\ rsz.advancedRuns <= 1 /\ rsz.baselineRuns <= 1
    /\ rsz.baselineRuns = 1 <=> rsz.advancedFailure # Null
    /\ rsz.advancedFailure # Null => rsz.advancedRuns = 1
    /\ rsz.aiProcessingUsed =>
          rsz.baselineRuns = 0 /\ (rsz.output # Null => rsz.output[1].tier = "python")

\* C22 witness: an optimize request was answered after one advanced attempt
\* that failed and one baseline run.
WitnessTiersRunAtMostOnce ==
    /\ opt.pc = "responded"
    /\ opt.advancedRuns = 1
    /\ opt.advancedFailure # Null
    /\ opt.baselineRuns = 1
    /\ opt.resStatus = 200

----------------------------------------------------------------------------
(* C23 *)

\* r clamped to [50, 95]
Clamped(r) == Max(50, Min(95, r))

\* C23 (as claimed): with dimension reduction enabled and an integer r supplied,
\* the percentage applied is r clamped to [50, 95]; with reduction disabled it
\* is 100.
ReductionIsClamped ==
    opt.pc \notin {"idle"} =>
        /\ (opt.shouldReduceDimensions /\ opt.reduction # Null) =>
              opt.reductionPercent = Clamped(opt.reduction[1])
        /\ ~opt.shouldReduceDimensions => opt.reductionPercent = 100

----------------------------------------------------------------------------
(* C24 *)

\* The step is a call of updateUploadJob that has returned
UpdateReturned == ret' # ret /\ ret'.op = "update"

----------------------------------------------------------------------------
(* C27 *)

\* C27: what getAllUploadJobs returns holds every stored job exactly once, as
\* stored, ordered by createdAt descending; the call changes no record.
ListIsSortedAndComplete ==
    /\ [](ret.op = "list" =>
            /\ \A i, k \in DOMAIN ret.value :
                  i < k => ret.value[i].createdAt >= ret.value[k].createdAt
            /\ \A i, k \in DOMAIN ret.value :
                  ret.value[i].id = ret.value[k].id => i = k)
    /\ [][(ret' # ret /\ ret'.op = "list") =>
            /\ uploadJobs' = uploadJobs
            /\ Len(ret'.value) = Len(uploadJobs)
            /\ \A id \in DOMAIN uploadJobs :
                  \E i \in DOMAIN ret'.value : ret'.value[i] = uploadJobs[id]]_vars

\* C27 witness: a listing of two jobs created at different times, the newer one
\* first though it was stored last.
WitnessListIsSortedAndComplete ==
    /\ ret.op = "list"
    /\ Len(ret.value) = 2
    /\ ret.value[1].createdAt > ret.value[2].createdAt
    /\ ret.value[1].id = 2

----------------------------------------------------------------------------
(* C25 *)

\* The record job j has when it runs alone with the clock standing still: the
\* record as created, with what its own processMediaAsync has written so far
SoloRecord(j) ==
    LET o == orch[j]
        last == IF o.processedFormats = 0 THEN 30
                ELSE Progress(o.processedFormats, o.totalFormats)
        running(progress) == [o.job EXCEPT !.progress = progress]
        completed == [o.job EXCEPT !.status = "completed", !.progress = 100,
                                   !.results = Some(o.results)]
    IN  CASE o.pc = "called" -> o.job
          [] o.pc \in {"started", "analyzing"} -> running(10)
          [] o.pc = "checkpoint" -> running(30)
          [] o.pc \in {"task", "hung", "progressed"} -> running(last)
          [] o.pc = "completed" -> completed
          [] o.pc = "done" /\ j \notin disk -> completed
          [] o.pc = "done" /\ j \in disk ->
                [completed EXCEPT !.status = "failed", !.error = Some("unlink failed")]
          [] OTHER -> [o.job EXCEPT !.status = "failed", !.progress = 30,
                                    !.error = Some("Cannot read properties of null (reading 'length')")]

----------------------------------------------------------------------------
(* C26 *)

\* C26 (as claimed): every update of a job's record leaves an updatedAt greater
\* than the one before and greater than createdAt.
UpdatedAtStrictlyIncreases ==
    [][\A j \in Jobs :
          Len(writes'[j]) > Len(writes[j]) =>
              /\ uploadJobs'[j].updatedAt > uploadJobs[j].updatedAt
              /\ uploadJobs'[j].updatedAt > uploadJobs'[j].createdAt]_vars

----------------------------------------------------------------------------
(* C28 *)

----------------------------------------------------------------------------
(* C29 *)

\* C29: a job whose totalFormats is zero is completed by the step that follows
\* the Phase A checkpoint: its writes are the creation, the 10, the 30 and the
\* completed update with progress 100, its results are an empty list, no format
\* task was attempted and no other progress value was ever stored.
ZeroFormatsCompletesDirectly ==
    \A j \in Jobs :
        (PastCheckpoint(j) /\ orch[j].pc # "aborted" /\ orch[j].totalFormats = 0) =>
            /\ LoopsOver(j)
            /\ CompletedAt(j) = 4
            /\ PhaseBWrites(j) = {}
            /\ orch[j].attempted = {}
            /\ uploadJobs[j].results = Some(<< >>)
            /\ \A i \in DOMAIN writes[j] : writes[j][i].progress \in {0, 10, 30, 100}
            /\ writes[j][4].progress = 100

\* C29 witness: a job with no format to process is completed after four writes.
WitnessZeroFormatsCompletesDirectly ==
    \E j \in Jobs :
        /\ orch[j].totalFormats = 0
        /\ TotalFormats(orch[j].selectedFormats) = 0
        /\ uploadJobs[j].status = "completed"
        /\ uploadJobs[j].progress = 100
        /\ Len(writes[j]) = 4

----------------------------------------------------------------------------
(* C30 *)

\* The fields of a job record assigned at creation
CreationFields == {"id", "originalFileName", "fileSize", "mimeType", "platforms", "createdAt"}

\* C30: whatever the orchestrator has written, a record has the fields it was
\* created with, and id, originalFileName, fileSize, mimeType, platforms and
\* createdAt have the values they were created with.
CreationFieldsImmutable ==
    \A j \in Jobs :
        /\ DOMAIN uploadJobs[j] = DOMAIN orch[j].job
        /\ uploadJobs[j].id = j
        /\ \A f \in CreationFields : uploadJobs[j][f] = orch[j].job[f]

\* C30 witness: a job created at one time and failed at a later one, its
\* status, progress, results, error and updatedAt all changed since creation.
WitnessCreationFieldsImmutable ==
    \E j \in Jobs :
        /\ uploadJobs[j].status = "failed"
        /\ uploadJobs[j].progress = 100
        /\ uploadJobs[j].results # Null
        /\ uploadJobs[j].error # Null
        /\ uploadJobs[j].updatedAt > uploadJobs[j].createdAt

----------------------------------------------------------------------------
(* C31 *)

\* Job j is waiting for an external call: the subject analysis, or a format
\* task (one that may still answer, or one whose child never exits)
Suspended(j) == orch[j].pc \in {"analyzing", "task", "hung"}

\* Job j's processMediaAsync has a continuation or an outcome still to come
Unfinished(j) == orch[j].pc \notin {"hung", "done"}

\* C31: while a job is suspended in its subject analysis or in a format task,
\* stalled for good or not, reading a job, listing the jobs and a new
\* submission stay possible, and every other job that has not finished can
\* take its next step, whatever phase it is in.
SuspendedJobBlocksNoOther ==
    /\ (\E j \in Jobs : Suspended(j)) =>
          /\ \A k \in Jobs : ENABLED StoreGet(k)
          /\ ENABLED StoreList
          /\ Len(uploadJobs) < MaxPair =>
                 \A body \in PairBodies : ENABLED SubmitWithin(PairFile, body, MaxPair)
    /\ \A k \in Jobs :
          (Unfinished(k) /\ \E j \in Jobs \ {k} : Suspended(j)) => ENABLED Step(k)

\* C31 witness: a job submitted first is still waiting for its subject
\* analysis while a job submitted after it has gone through all its phases and
\* stands completed.
WitnessSuspendedJobBlocksNoOther ==
    \E j, k \in Jobs :
        /\ j < k
        /\ orch[j].pc = "analyzing"
        /\ orch[k].pc = "done"
        /\ uploadJobs[k].status = "completed"
        /\ uploadJobs[k].progress = 100

----------------------------------------------------------------------------
(* C32 *)

\* The window lies inside the source
InBounds(window, src) ==
    /\ window.left >= 0 /\ window.top >= 0
    /\ window.width >= 1 /\ window.height >= 1
    /\ window.left + window.width <= src.width
    /\ window.top + window.height <= src.height

\* |a - b|
Distance(a, b) == IF a >= b THEN a - b ELSE b - a

\* The window has the target's aspect ratio to within one pixel of one side
AspectMatches(window, target) ==
    \/ Distance(window.width * target.height, window.height * target.width)
           <= target.height
    \/ Distance(window.width * target.height, window.height * target.width)
           <= target.width

----------------------------------------------------------------------------
(* C33 *)

\* The python3 child of the call has failed: it could not be spawned, it exited
\* with a code other than 0, or its output reports a failure or does not parse
PythonFailed ==
    \/ pm.errored
    \/ pm.closed /\ (pm.code # Some(0) \/ pm.stdout # "success")

\* The path of the sharp fallback of an image, of the placeholder of a video
FallbackPath ==
    <<pm.outputPath[1], pm.outputPath[2],
      IF pm.mediaType = "image" THEN "fallback" ELSE "placeholder",
      pm.outputPath[3], "jpg">>

\* C33 (as claimed): when the python processor has failed, processMedia is not
\* rejected: it returns the path of the sharp fallback for an image and the
\* path of the placeholder for a video.
PythonFailureFallsBack ==
    PythonFailed => pm.settled = "resolved" /\ pm.value = Some(FallbackPath)

----------------------------------------------------------------------------
(* C34 *)

\* The sharp fallback of the resize request has been started
FallbackRan == rsz.baselineRuns > 0

\* The response reports cropMethod 'sharp_attention'
ReportsSharpAttention ==
    rsz.pc = "responded" /\ rsz.cropMethod = Some("sharp_attention")

\* The fallback runs exactly when the AI processor failed, and a processor that
\* exited with code 0 keeps its output: no fallback runs, nothing of sharp's
\* replaces what the processor wrote
FallbackIffAiFailed ==
    /\ FallbackRan <=> rsz.advancedFailure # Null
    /\ rsz.advancedFailure # Null => rsz.advancedFailure[1] \in {"exit", "spawn"}
    /\ rsz.aiProcessingUsed =>
          /\ ~FallbackRan
          /\ rsz.output # Null => rsz.output[1].tier = "python"

\* C34 (as claimed): the fallback runs exactly when the AI processor failed and
\* never after an exit with code 0, and the response reports 'sharp_attention'
\* if and only if the fallback ran.
SharpAttentionIffFallbackRan ==
    /\ FallbackIffAiFailed
    /\ rsz.pc = "responded" => (ReportsSharpAttention <=> FallbackRan)

\* C34 (amended): the fallback runs exactly when the AI processor failed and
\* never after an exit with code 0; a response that reports 'sharp_attention'
\* comes after the fallback, the 200 response reports it if and only if the
\* fallback ran, and a fallback that fails itself is answered 500 with no
\* cropMethod.
SharpAttentionIffFallbackSucceeded ==
    /\ FallbackIffAiFailed
    /\ ReportsSharpAttention => FallbackRan
    /\ rsz.pc = "responded" /\ rsz.resStatus = 200 =>
          (ReportsSharpAttention <=> FallbackRan)
    /\ rsz.pc = "responded" /\ rsz.baselineFailed =>
          rsz.resStatus = 500 /\ rsz.cropMethod = Null

\* C34 witness: the AI processor could not be spawned, the fallback ran and
\* wrote the output, and the 200 response reports 'sharp_attention'.
WitnessSharpAttentionIffFallbackSucceeded ==
    /\ rsz.pc = "responded"
    /\ rsz.resStatus = 200
    /\ rsz.advancedFailure = Some("spawn")
    /\ FallbackRan
    /\ rsz.output # Null
    /\ rsz.output[1].tier = "sharp"
    /\ ReportsSharpAttention

----------------------------------------------------------------------------
(* C35 *)

\* C35 (as claimed): whatever events the ffmpeg child emits, res.json is called
\* once at most for a request; after an 'error' event has sent the 500, the
\* 'close' event that follows attempts no second response.
AtMostOneResponse == vid.attempts <= 1

----------------------------------------------------------------------------
(* C36 *)

\* C36 (as claimed): any two format tasks that produced an artifact, of one job
\* or of two jobs running side by side, wrote to different output paths.
OutputPathsAreDistinct ==
    \A j, k \in Jobs :
        \A i \in DOMAIN orch[j].results, l \in DOMAIN orch[k].results :
            <<j, i>> # <<k, l>> => orch[j].results[i].filePath # orch[k].results[l].filePath

----------------------------------------------------------------------------
(* C37 *)

\* A step in which the program removes job j's input file (the file going
\* missing from outside the program is not one)
InputDeleted(j) == j \in disk /\ j \notin disk' /\ ~InputLost(j)

\* Job j has failed without its completed update ever being written
FailedBeforeCompletion(j) ==
    uploadJobs[j].status = "failed" /\ WritesIn(j, "completed") = {}

\* C37: the program removes a job's input file only in the step right after
\* the job's completed update, when that update is the last write of the job
\* and no format task of the job is pending or running; a job that has failed
\* without completing has no step that removes its file.
InputDeletedAfterCompletion ==
    /\ [][\A j \in Jobs :
            InputDeleted(j) =>
                /\ orch[j].pc = "completed"
                /\ uploadJobs[j].status = "completed"
                /\ CompletedAt(j) = Len(writes[j])
                /\ NextTask(Tasks(orch[j].selectedFormats), orch[j].cursor)
                       > Len(Tasks(orch[j].selectedFormats))]_vars
    /\ [][\A j \in Jobs :
            FailedBeforeCompletion(j) => (j \in disk => j \in disk')]_vars
    /\ [](\A j \in Jobs : FailedBeforeCompletion(j) => ~ENABLED UnlinkSucceeds(j))

\* C37 witness: a job has completed with a result and its input file is gone,
\* removed after the completed update; the file was there for the format task.
WitnessInputDeletedAfterCompletion ==
    \E j \in Jobs :
        /\ orch[j].pc = "done"
        /\ uploadJobs[j].status = "completed"
        /\ Len(orch[j].results) >= 1
        /\ CompletedAt(j) = Len(writes[j])
        /\ j \notin disk

----------------------------------------------------------------------------
(* C38 *)

\* The ids of a platforms list that the catalog has
KnownPlatforms(platforms) ==
    {platforms[i] : i \in DOMAIN platforms} \cap
    {PLATFORM_CONFIGS[p].id : p \in DOMAIN PLATFORM_CONFIGS}

\* The number of formats the catalog has for the platforms of `ids`
RECURSIVE CatalogCount(_)
CatalogCount(ids) ==
    IF ids = {} THEN 0
    ELSE LET id == CHOOSE x \in ids : TRUE
         IN  Len(PLATFORM_CONFIGS[FindPlatform(id)].formats) + CatalogCount(ids \ {id})

\* Job j's processMediaAsync has computed totalFormats
Counted(j) == orch[j].pc \notin {"called", "started", "analyzing", "checkpoint", "aborted"}

\* C38: a submission with the legacy platforms list and no selectedFormats
\* requests, for each listed platform the catalog has, all its catalog formats,
\* and nothing for the ids the catalog does not have; when no listed id is
\* known it is answered 400 and no job is created; the job's totalFormats is
\* the sum of the catalog format counts of the known platforms.
LegacyRequestsCatalogFormats ==
    /\ [][\A file \in Files, body \in LegacyBodies :
            Submit(file, body) =>
                LET known == KnownPlatforms(body.platforms)
                    id == Len(uploadJobs) + 1
                IN  IF known = {}
                    THEN resStatus' = 400 /\ uploadJobs' = uploadJobs /\ orch' = orch
                    ELSE /\ DOMAIN uploadJobs' = 1..id
                         /\ Len(orch'[id].selectedFormats) = Cardinality(known)
                         /\ \A i \in DOMAIN orch'[id].selectedFormats :
                               LET entry == orch'[id].selectedFormats[i]
                               IN  /\ entry.platformId \in known
                                   /\ ~entry.isNull
                                   /\ entry.formatNames =
                                          FormatNames(FindPlatform(entry.platformId))
                         /\ {orch'[id].selectedFormats[i].platformId :
                                i \in DOMAIN orch'[id].selectedFormats} = known]_vars
    /\ [](\A j \in Jobs :
            Counted(j) =>
                orch[j].totalFormats =
                    CatalogCount({orch[j].selectedFormats[i].platformId :
                                     i \in DOMAIN orch[j].selectedFormats}))

\* C38 witness: the list youtube, orkut, tiktok made a job for youtube's two
\* formats and tiktok's one, three in all, and the job has completed with them.
WitnessLegacyRequestsCatalogFormats ==
    \E j \in Jobs :
        /\ Keys(orch[j].selectedFormats) = <<"youtube", "tiktok">>
        /\ orch[j].selectedFormats[1].formatNames = <<"Video", "Thumbnail">>
        /\ orch[j].totalFormats = 3
        /\ uploadJobs[j].status = "completed"
        /\ Len(orch[j].results) = 3

----------------------------------------------------------------------------
(* C39 *)

\* The quality the claim gives an input: the first value up to 2 MB, the second
\* above 2 MB, the third above 5 MB
TierQuality(originalSize, upTo2, over2, over5) ==
    IF originalSize > 5 * 1024 * 1024 THEN over5
    ELSE IF originalSize > 2 * 1024 * 1024 THEN over2
    ELSE upTo2

\* C39 (as claimed): the quality follows the input size in three tiers: JPEG 85
\* up to 2 MB, 75 over 2 MB and 70 over 5 MB; WebP 85, 80 and 75; AVIF 80, 75
\* and 70 (as cqLevel, 100 less the quality).
QualityHasThreeTiers ==
    (enc.op = "options" /\ enc.options # Null) =>
        LET o == enc.options[1]
            size == enc.originalSize
        IN  /\ o.encoder = "mozjpeg" => o.quality = TierQuality(size, 85, 75, 70)
            /\ o.encoder = "webp" => o.quality = TierQuality(size, 85, 80, 75)
            /\ o.encoder = "avif" => 100 - o.cqLevel = TierQuality(size, 80, 75, 70)

====
